---- MODULE Spec2Model ----
(***************************************************************************)
(* A state-machine model of the UAMP/MVISP client library (DBS3):          *)
(* library/src/uampClient.c and library/src/queues.c.                      *)
(*                                                                         *)
(* The client structure is the record `client'.  A library call that       *)
(* blocks in a socket read is split at the points where receiveReply() is  *)
(* entered: `pc' is "idle" between calls and "fill" while requestUpdates() *)
(* is inside its read loop; `call' and `fill' hold the local variables of  *)
(* the suspended C functions.  The process is sequential, so no other      *)
(* action is enabled while pc = "fill".                                    *)
(*                                                                         *)
(* Times on the wire are unsigned 32-bit milliseconds.  A surfaced double  *)
(* ((double)v) / 1000.0 is represented by the rational <<v, 1000>>; the    *)
(* conversion is injective on 32-bit values.                               *)
(***************************************************************************)
EXTENDS Integers, Sequences, FiniteSets, TLC

(* ----------------------------- bounds ---------------------------------- *)

\* largest time limit, in milliseconds, given to uampConnect
MaxTimeLimit == 6

\* largest time, in milliseconds, between two updates of an agent that are
\* not its final update
MaxStep == 2

\* largest number of state changes a session has accepted when
\* uampChangeState is called
MaxChanges == 130

\* largest total given to beginRead and beginWrite
MaxTotal == 2053

\* largest width, in bits, of the reduced unsigned word in which the sum of
\* fillUpdateQueues is computed where its overflow is examined; the other
\* width examined is one bit less
WordBits == 4

(* ------------------------- program constants --------------------------- *)

UAMP_IO_BUFFER_SIZE == 2048

UAMP_UPDATE_QUEUE_SIZE == 6

UAMP_STATE_BUFFER_SIZE == 128

\* states.c: the longest state name
MAX_NAME_LEN == 1024

\* A time in seconds given to the library is a double that its caller
\* names by a decimal: seconds + tenths / 10000, tenths being tenths of a
\* millisecond (negative for a time before seconds).  Two such decimals
\* that differ are at least 0.0001 apart, which is more than the distance
\* of two doubles below 2^32, so the doubles nearest to them compare as
\* the decimals do.
NoTime == [seconds |-> 0, tenths |-> 0]

\* uampClient.h: the largest time in seconds, 4294967.295
UAMP_MAX_TIME == [seconds |-> 4294967, tenths |-> 2950]

\* epidemic.c: the agents contagious at time zero and the immune agents,
\* as they are without the options -i and -n
INITIAL_AGENTS == 1

IMMUNE_AGENTS == 0

\* epidemic.c: the states sent to the MVISP server, each the sequence of
\* its characters
STATE_NAMES ==
  <<<<"U", "n", "i", "n", "f", "e", "c", "t", "e", "d">>,
    <<"I", "n", "c", "u", "b", "a", "t", "i", "n", "g">>,
    <<"C", "o", "n", "t", "a", "g", "i", "o", "u", "s">>,
    <<"I", "m", "m", "u", "n", "e">>>>

\* a 32-bit feature mask is the set of the positions of its 1 bits
UAMP_NO_EXTRAS == {}

UAMP_SUPPORTS_3D == {31}

UAMP_SUPPORTS_ADD_REMOVE == {30}

SUPPORTED_VERSION == 128

ERROR_INVALID_PORT == -1

ERROR_HOSTNAME_INFORMATION == -2

ERROR_CREATE_SOCKET == -3

ERROR_CONNECT_SOCKET == -4

ERROR_SOCKET_DRY == -5

ERROR_SOCKET_READ == -6

ERROR_SOCKET_WRITE == -7

ERROR_INVALID_NUMBER_STATES == -9

ERROR_ZERO_STATE_LENGTH == -10

ERROR_STATE_LENGTH_LONG == -11

ERROR_DUPLICATE_STATE == -12

ERROR_INVALID_NUM_AGENTS == -13

ERROR_INVALID_TIME_LIMIT == -14

ERROR_UAMP_CLIENT_MVISP_SERVER == -15

ERROR_MVISP_CLIENT_UAMP_SERVER == -16

ERROR_SERVER_UNKNOWN_HANDSHAKE == -17

ERROR_SIMULATION_DENIED == -18

ERROR_SIMULATION_RESPONSE_BAD == -19

ERROR_NO_MORE_DATA == -20

ERROR_INVALID_CHANGE_TIME == -21

ERROR_INVALID_CHANGE_STATE == -22

ERROR_NO_INTERSECTION == -23

ERROR_NO_SHARED_VERSION == -24

ERROR_2D_CLIENT_3D_SERVER == -25

ERROR_ADD_REMOVE_UNSUPPORTED == -26

ERROR_INVALID_FEATURES == -27

ERROR_SERVER_REJECTED_HANDSHAKE == -28

ERROR_SERVER_CLIENT_VERSION_DISAGREE == -29

ERROR_MVISP_NO_AGENTS == -30

ERROR_FIRST_UPDATE_TIME == -31

ERROR_NON_EQUAL_FINAL_UPDATES == -32

ERROR_TIMESTAMP_TOO_LARGE == -33

ERROR_TIMESTAMP_NOT_INCREMENTED == -34

ERROR_INVALID_PRESENT_FLAG == -35

\* the descriptor returned by a successful callSocket()
SOCKET_FD == 3

(* ------------------------------ state ---------------------------------- *)

VARIABLES
  client,      \* struct uampClient
  pc,          \* "idle": no call in progress; "fill": inside requestUpdates;
               \* "accept": mvispConnect has called acceptFunc; "left":
               \* runClient of epidemic.c is past its while loop
  call,        \* the running (or last) public call and its local variables
  fill,        \* local variables of fillUpdateQueues / requestUpdates
  ret,         \* wasErr of the running call, its return value once done
  wire,        \* typed writes made on the socket by the running/last call
               \* (the data of every socketWrite call made, also of one
               \* that failed: what a failed call delivered is not known)
  sent,        \* the state-change and termination frames written on the
               \* connection since it was opened, in order
  socketOpen,  \* the descriptor returned by callSocket is open
  changed,     \* the state changes for which uampChangeState returned 0 on
               \* an MVISP session, in the order of the calls
  accepted,    \* per agent, the replies for which receiveReply returned 0
  lastCommand, \* per agent, <<uampCurrentCommand before its last advance>>
               \* (<<>>: the agent has not advanced)
  poisoned,    \* a call on the connected session failed with an I/O or
               \* verification error (only uampTerminate may follow)
  advances,    \* per agent, the advanceAgent calls made on the session
  infectedAgents, \* the local variable of that name of runClient
               \* (epidemic.c), the client whose loop advances the session
  io,          \* the framed reads and writes begun on client->commBuf by
               \* the running/last call, in order: for each beginRead or
               \* beginWrite its total and the bytes the typed calls that
               \* followed it have passed
  commBuf,     \* a struct uampIOBuffer driven through ioBuffer.c on its own:
               \* total, passed, inBuffer and buffer, which maps the indices
               \* that hold a byte of the frame in progress to the offset of
               \* that byte in the frame
  traffic,     \* what the calls on commBuf have done to the socket and given
               \* their caller since the last beginRead/beginWrite
  uint32Mod    \* the number of values of the uint32_t in which
               \* fillUpdateQueues sums the requests: 2^w for a reduced
               \* width w, or 0 for the 2^32 of the library, which no sum
               \* of a session of the model reaches

\* the variables of a session of the library
session ==
  <<client, pc, call, fill, ret, wire, sent, socketOpen, changed,
    accepted, lastCommand, poisoned, advances, infectedAgents, io,
    uint32Mod>>

vars == <<session, commBuf, traffic>>

\* the smaller of two numbers
Min(a, b) == IF a < b THEN a ELSE b

\* the largest uint32_t, 0xFFFFFFFF.  A uint32_t above INT32_MAX is held as
\* the negative integer that has the same 32 bits; of the fields of the
\* session only the time limit, and the time of a state change, take such
\* a value
UINT32_MAX == -1

\* a < b for two uint32_t
Below32(a, b) == IF (a < 0) = (b < 0) THEN a < b ELSE b < 0

(* --------------------------- bit helpers ------------------------------- *)

\* (features & UAMP_SUPPORTS_3D) != 0
Has3D(features) == (features \cap UAMP_SUPPORTS_3D) # {}

\* (features & UAMP_SUPPORTS_ADD_REMOVE) != 0
HasAddRemove(features) ==
  (features \cap UAMP_SUPPORTS_ADD_REMOVE) # {}

\* (~(UAMP_SUPPORTS_3D | UAMP_SUPPORTS_ADD_REMOVE)) & features
OtherFeatureBits(features) ==
  features \ (UAMP_SUPPORTS_3D \cup UAMP_SUPPORTS_ADD_REMOVE)

\* one typed write on the socket: socketWrite8 / socketWrite32 / raw bytes
W8(v) == <<8, v>>

W32(v) == <<32, v>>

WRaw(s) == <<"raw", s>>

(* ------------------------- ioBuffer.c: framing ------------------------- *)

\* the bytes passed by n8 socketRead8/socketWrite8 calls, n32
\* socketRead32/socketWrite32 calls and raw bytes of raw data
TypedBytes(n8, n32, raw) == n8 + 4 * n32 + raw

\* beginRead/beginWrite(total), and the bytes passed the typed calls that
\* follow it
IoFrame(op, total, passed) == [op |-> op, total |-> total, passed |-> passed]

\* mutant: the byte of the present flag is left out of the read total
requestReadTotal_NoPresent(c, totalRequests) ==
  IF Has3D(c.serverFeatures) THEN 16 * totalRequests
  ELSE 12 * totalRequests

\* totalRead of requestUpdates (queues.c, lines 142-147)
requestReadTotal(c, totalRequests) ==
  (IF Has3D(c.serverFeatures) THEN 16 * totalRequests
   ELSE 12 * totalRequests)
  + (IF HasAddRemove(c.serverFeatures) THEN totalRequests ELSE 0)

\* totalWrite of requestUpdates (queues.c, line 141)
requestWriteTotal(totalRequests) == 5 + 4 * totalRequests

\* the bytes the typed reads of one receiveReply pass (queues.c, lines
\* 200-215)
replyBytes(c) ==
  TypedBytes(IF HasAddRemove(c.serverFeatures) THEN 1 ELSE 0,
             IF Has3D(c.serverFeatures) THEN 4 ELSE 3, 0)

\* the sum of nameLengths[0 .. n-1]: the lengths stateNameLength gave
RECURSIVE nameBytes(_, _)
nameBytes(stateNames, n) ==
  IF n = 0 THEN 0 ELSE nameBytes(stateNames, n - 1) + Len(stateNames[n])

\* totalLen of writeStates (states.c, lines 87-90)
statesTotal(stateNames, numStates) ==
  4 + 4 * numStates + nameBytes(stateNames, numStates)

\* totalLen of flushStateChanges (states.c, line 152)
flushTotal(c) == 5 + 12 * c.numChanges

\* the socketWrite calls that socketWriteRaw makes for a frame of total
\* bytes: one for each buffer filled and one for what is left when the
\* last byte is passed (ioBuffer.c, line 173)
writeCalls(total) == (total + UAMP_IO_BUFFER_SIZE - 1) \div UAMP_IO_BUFFER_SIZE

\* the bytes of the frame passed to socketWriteRaw when it makes its j-th
\* socketWrite call (all of them, up to the last of which, have been given
\* to socketWrite)
passedAtWrite(total, j) == Min(UAMP_IO_BUFFER_SIZE * j, total)

\* the bytes of htonl(v), in the order of their addresses
bytes32(v) ==
  <<(v \div 16777216) % 256, (v \div 65536) % 256, (v \div 256) % 256,
    v % 256>>

\* the first n bytes of the socketWrite32 calls words: whole calls, and the
\* bytes of the call that a full buffer cut
partWords(words, n) ==
  SubSeq(words, 1, n \div 4)
  \o (IF n % 4 = 0 THEN <<>>
      ELSE <<WRaw(SubSeq(bytes32(words[(n \div 4) + 1][2]), 1, n % 4))>>)

\* the first n bytes of the socketWriteRaw calls that pass names
RECURSIVE partNames(_, _)
partNames(names, n) ==
  IF n <= 0 \/ names = <<>> THEN <<>>
  ELSE IF Len(Head(names)) <= n
  THEN <<WRaw(Head(names))>> \o partNames(Tail(names), n - Len(Head(names)))
  ELSE <<WRaw(SubSeq(Head(names), 1, n))>>

(* --------------------- ioBuffer.c: the byte buffer --------------------- *)

\* a byte of the buffer that is not of the frame in progress: never
\* written, or left by an earlier frame
Stale == -1

\* buffer[k]
byteAt(buffer, k) == IF k \in DOMAIN buffer THEN buffer[k] ELSE Stale

\* memcpy(buffer + at, src, n), the n bytes of src being those of the frame
\* from offset first on
copyIn(buffer, at, first, n) ==
  [k \in (DOMAIN buffer) \cup (at..(at + n - 1)) |->
     IF k >= at /\ k < at + n THEN first + (k - at) ELSE buffer[k]]

\* the socket calls made and the data handed over since the last
\* beginRead/beginWrite.  op: "none", "read" or "write"; moved: the bytes
\* socketRead has delivered or socketWrite has taken; calls: for each
\* socketRead/socketWrite call its size, passed and inBuffer when it was made
\* (for a socketWrite: after the copy that precedes it) and whether the
\* bytes it carried are the next bytes of the frame, in order; data: the
\* bytes the last typed read gave its caller; ret: the return value of the
\* last typed call
NoSocket == [op |-> "none", moved |-> 0, calls |-> <<>>, data |-> <<>>, ret |-> 0]

\* beginRead and beginWrite (lines 31-39, 118-126)
beginFrame(buf, total) ==
  [buf EXCEPT !.total = total, !.passed = 0, !.inBuffer = 0]

\* mutant: a refill always asks for a whole buffer
refillSize_WholeBuffer(buf) == UAMP_IO_BUFFER_SIZE

\* thisTime of a refill (lines 85-89)
refillSize(buf) ==
  IF buf.total - buf.passed < UAMP_IO_BUFFER_SIZE
  THEN buf.total - buf.passed
  ELSE UAMP_IO_BUFFER_SIZE

\* the while loop of socketReadRaw (lines 75-112) on the record r of the
\* buffer and the socket, with length bytes still to hand over.  The
\* socketRead calls the loop makes return 0, but for the nth of them, which
\* returns res (nth counts the calls still to come; res = 0: none fails);
\* got: the bytes the read() calls of the failing socketRead delivered
\* before the one that failed (fewer than it asked for), which are in the
\* buffer and gone from the socket.  The socket delivers the bytes of the
\* frame in order, then those that follow it.
RECURSIVE readLoop(_, _, _, _, _)
readLoop(r, length, nth, res, got) ==
  IF length = 0 THEN r
  ELSE
    LET b == r.buf
        asked == refillSize(b)
        base == UAMP_IO_BUFFER_SIZE - asked
        call1 == [size |-> asked, passed |-> b.passed,
                  inBuffer |-> b.inBuffer, ordered |-> TRUE]
        filled ==
          IF b.inBuffer # 0 THEN r
          ELSE [buf |-> [b EXCEPT
                           !.buffer = copyIn(@, base, r.sock.moved, asked),
                           !.inBuffer = asked],
                sock |-> [r.sock EXCEPT !.moved = @ + asked,
                                        !.calls = Append(@, call1)]]
        f == filled.buf
        thisTime == IF length < f.inBuffer THEN length ELSE f.inBuffer
        from == UAMP_IO_BUFFER_SIZE - f.inBuffer
        copied == [k \in 1..thisTime |-> byteAt(f.buffer, from + k - 1)]
    IN IF b.inBuffer = 0 /\ res # 0 /\ nth = 1
       THEN [buf |-> [b EXCEPT
                        !.buffer = copyIn(@, base, r.sock.moved, got)],
             sock |-> [r.sock EXCEPT !.ret = res,
                                     !.moved = @ + got,
                                     !.calls = Append(@, call1)]]
       ELSE readLoop([buf |-> [f EXCEPT !.inBuffer = @ - thisTime,
                                        !.passed = @ + thisTime],
                      sock |-> [filled.sock EXCEPT !.data = @ \o copied]],
                     length - thisTime,
                     IF b.inBuffer = 0 THEN nth - 1 ELSE nth, res, got)

\* socketReadRaw(buf, fd, data, length); data holds what the call copied to
\* its caller's memory, also when it fails
socketReadRaw(buf, sk, length, nth, res, got) ==
  readLoop([buf |-> buf, sock |-> [sk EXCEPT !.data = <<>>, !.ret = 0]],
           length, nth, res, got)

\* socketRead32 (lines 45-52): the bytes are read into a local and given
\* to the caller only when socketReadRaw returns 0
read32(buf, sk, nth, res, got) ==
  LET r == socketReadRaw(buf, sk, 4, nth, res, got)
  IN IF r.sock.ret # 0 THEN [r EXCEPT !.sock.data = <<>>] ELSE r

\* mutant: the buffer is flushed only when it is full
mustFlush_OnlyWhenFull(buf) == buf.inBuffer = UAMP_IO_BUFFER_SIZE

\* the flush test of socketWriteRaw (line 173)
mustFlush(buf) ==
  buf.inBuffer = UAMP_IO_BUFFER_SIZE \/ buf.passed = buf.total

\* the while loop of socketWriteRaw (lines 154-178), with length bytes
\* still to take from the caller, who supplies the bytes of the frame in
\* order.  The socketWrite calls the loop makes return 0, but for the nth
\* of them, which returns res (nth counts the calls still to come; res = 0:
\* none fails); got: the bytes the write() calls of the failing socketWrite
\* took before the one that failed (fewer than it was given)
RECURSIVE writeLoop(_, _, _, _, _)
writeLoop(r, length, nth, res, got) ==
  IF length = 0 THEN r
  ELSE
    LET b == r.buf
        room == UAMP_IO_BUFFER_SIZE - b.inBuffer
        thisTime == IF length < room THEN length ELSE room
        taken == [b EXCEPT
                    !.buffer = copyIn(@, b.inBuffer, b.passed, thisTime),
                    !.inBuffer = @ + thisTime,
                    !.passed = @ + thisTime]
        call1 == [size |-> taken.inBuffer, passed |-> taken.passed,
                  inBuffer |-> taken.inBuffer,
                  ordered |-> \A k \in 0..(taken.inBuffer - 1) :
                                byteAt(taken.buffer, k) = r.sock.moved + k]
    IN IF ~mustFlush(taken)
       THEN writeLoop([r EXCEPT !.buf = taken], length - thisTime, nth,
                      res, got)
       ELSE IF res # 0 /\ nth = 1
       THEN [buf |-> taken,
             sock |-> [r.sock EXCEPT !.ret = res,
                                     !.moved = @ + got,
                                     !.calls = Append(@, call1)]]
       ELSE writeLoop([buf |-> [taken EXCEPT !.inBuffer = 0],
                       sock |-> [r.sock EXCEPT !.moved = @ + taken.inBuffer,
                                               !.calls = Append(@, call1)]],
                      length - thisTime, nth - 1, res, got)

\* socketWriteRaw(buf, fd, data, length)
socketWriteRaw(buf, sk, length, nth, res, got) ==
  writeLoop([buf |-> buf, sock |-> [sk EXCEPT !.data = <<>>, !.ret = 0]],
            length, nth, res, got)

(* ------------------------- queues.c: getters --------------------------- *)

\* calloc()ed struct uampUpdate
ZeroUpdate == [time |-> 0, x |-> 0, y |-> 0, z |-> 0, present |-> 0]

\* calloc()ed struct uampAgent
ZeroAgent ==
  [updates |-> [s \in 0..(UAMP_UPDATE_QUEUE_SIZE - 1) |-> ZeroUpdate],
   currentIndex |-> 0, aliveInQueue |-> 0, recvIndex |-> 0,
   receivedFinal |-> 0]

Agents(c) == 0..(c.numAgents - 1)

getCurrentUpdate(c, agentID) ==
  c.agents[agentID].updates[c.agents[agentID].currentIndex]

\* mutant: the slot before slot 0 is taken to be slot 0
prevIndexOf_NoWrap(agent) ==
  IF agent.updates[agent.currentIndex].time = 0 THEN agent.currentIndex
  ELSE IF agent.currentIndex = 0 THEN 0
  ELSE agent.currentIndex - 1

\* index of the slot getPreviousUpdate returns
prevIndexOf(agent) ==
  IF agent.updates[agent.currentIndex].time = 0 THEN agent.currentIndex
  ELSE IF agent.currentIndex = 0 THEN UAMP_UPDATE_QUEUE_SIZE - 1
  ELSE agent.currentIndex - 1

getPreviousUpdate(c, agentID) ==
  c.agents[agentID].updates[prevIndexOf(c.agents[agentID])]

\* mutant: the slot of the previous update is taken to be free
numToRequest_PreviousFree(c, agentID) ==
  IF c.agents[agentID].receivedFinal # 0 THEN 0
  ELSE UAMP_UPDATE_QUEUE_SIZE - c.agents[agentID].aliveInQueue + 1

\* mutant: an agent that has its final update is requested like any other
numToRequest_IgnoresFinal(c, agentID) ==
  UAMP_UPDATE_QUEUE_SIZE - c.agents[agentID].aliveInQueue

\* mutant: an agent without its final update is requested a whole ring
numToRequest_WholeRing(c, agentID) ==
  IF c.agents[agentID].receivedFinal # 0 THEN 0
  ELSE UAMP_UPDATE_QUEUE_SIZE

\* numToRequest (lines 185-191): the free slots of the agent's ring
numToRequest(c, agentID) ==
  IF c.agents[agentID].receivedFinal # 0 THEN 0
  ELSE UAMP_UPDATE_QUEUE_SIZE - c.agents[agentID].aliveInQueue

\* mutant: every advance retires an update, the agent's first included
advanceCursor_AlwaysRetires(agent) ==
  [agent EXCEPT !.aliveInQueue = @ - 1,
                !.currentIndex = IF @ = UAMP_UPDATE_QUEUE_SIZE - 1 THEN 0
                                 ELSE @ + 1]

\* advanceAgent up to (not including) its call of fillUpdateQueues
advanceCursor(agent) ==
  LET dec == IF agent.updates[agent.currentIndex].time # 0
             THEN agent.aliveInQueue - 1 ELSE agent.aliveInQueue
      cur == IF agent.currentIndex = UAMP_UPDATE_QUEUE_SIZE - 1 THEN 0
             ELSE agent.currentIndex + 1
  IN [agent EXCEPT !.aliveInQueue = dec, !.currentIndex = cur]

(* ----------------------- queues.c: receiveReply ------------------------ *)

\* mutant: z and present are read from the socket whatever was negotiated
decodeReply_ReadsAll(c, w) ==
  [time |-> w.time, x |-> w.x, y |-> w.y, z |-> w.z, present |-> w.present]

\* the reply as stored in the ring slot: z and present are read from the
\* socket only when the server negotiated the feature
decodeReply(c, w) ==
  [time |-> w.time, x |-> w.x, y |-> w.y,
   z |-> IF Has3D(c.serverFeatures) THEN w.z ELSE 0,
   present |-> IF HasAddRemove(c.serverFeatures) THEN w.present ELSE 1]

\* mutant: after the final update only the time of a reply is compared
verifyOrder_FinalByTime(c, agent, storeReply) ==
  LET previousStore ==
        IF agent.recvIndex = 0
        THEN agent.updates[UAMP_UPDATE_QUEUE_SIZE - 1]
        ELSE agent.updates[agent.recvIndex - 1]
  IN IF agent.aliveInQueue = 0
     THEN IF storeReply.time # 0 THEN ERROR_FIRST_UPDATE_TIME ELSE 0
     ELSE IF agent.receivedFinal # 0
     THEN IF storeReply.time # previousStore.time
          THEN ERROR_NON_EQUAL_FINAL_UPDATES ELSE 0
     ELSE IF storeReply.time <= previousStore.time
          THEN ERROR_TIMESTAMP_NOT_INCREMENTED
     ELSE IF Below32(c.timeLimit, storeReply.time)
          THEN ERROR_TIMESTAMP_TOO_LARGE
     ELSE 0

\* the ordering checks of receiveReply (lines 225-244): 0 or the error of the
\* first failed check.  memcmp compares the whole struct; its padding bytes
\* are never written after calloc, so it compares the five fields.
verifyOrder(c, agent, storeReply) ==
  LET previousStore ==
        IF agent.recvIndex = 0
        THEN agent.updates[UAMP_UPDATE_QUEUE_SIZE - 1]
        ELSE agent.updates[agent.recvIndex - 1]
  IN IF agent.aliveInQueue = 0
     THEN IF storeReply.time # 0 THEN ERROR_FIRST_UPDATE_TIME ELSE 0
     ELSE IF agent.receivedFinal # 0
     THEN IF storeReply # previousStore
          THEN ERROR_NON_EQUAL_FINAL_UPDATES ELSE 0
     ELSE IF storeReply.time <= previousStore.time
          THEN ERROR_TIMESTAMP_NOT_INCREMENTED
     ELSE IF Below32(c.timeLimit, storeReply.time)
          THEN ERROR_TIMESTAMP_TOO_LARGE
     ELSE 0

\* the present-flag check of receiveReply (lines 245-247)
verifyPresent(storeReply) ==
  IF storeReply.present # 0 /\ storeReply.present # 1
  THEN ERROR_INVALID_PRESENT_FLAG ELSE 0

\* whether receiveReply sets agent->receivedFinal for this reply (line 241)
setsFinal(c, agent, storeReply) ==
  /\ agent.aliveInQueue # 0
  /\ agent.receivedFinal = 0
  /\ storeReply.time = c.timeLimit

\* mutant: a reply that fails verification is counted as alive
receiveReply_CountsRefused(c, agentID, w) ==
  LET agent == c.agents[agentID]
      storeReply == decodeReply(c, w)
      stored == [agent EXCEPT !.updates[agent.recvIndex] = storeReply,
                              !.aliveInQueue = agent.aliveInQueue + 1]
      orderErr == verifyOrder(c, agent, storeReply)
      final == IF orderErr = 0 /\ setsFinal(c, agent, storeReply)
               THEN [stored EXCEPT !.receivedFinal = 1] ELSE stored
      presentErr == verifyPresent(storeReply)
      next == IF agent.recvIndex = UAMP_UPDATE_QUEUE_SIZE - 1 THEN 0
              ELSE agent.recvIndex + 1
  IN IF orderErr # 0 THEN [agent |-> stored, ret |-> orderErr]
     ELSE IF presentErr # 0 THEN [agent |-> final, ret |-> presentErr]
     ELSE [agent |-> [final EXCEPT !.recvIndex = next], ret |-> 0]

\* mutant: the present flag is verified before the order of the times
receiveReply_PresentFirst(c, agentID, w) ==
  LET agent == c.agents[agentID]
      storeReply == decodeReply(c, w)
      stored == [agent EXCEPT !.updates[agent.recvIndex] = storeReply]
      orderErr == verifyOrder(c, agent, storeReply)
      final == IF orderErr = 0 /\ setsFinal(c, agent, storeReply)
               THEN [stored EXCEPT !.receivedFinal = 1] ELSE stored
      presentErr == verifyPresent(storeReply)
      next == IF agent.recvIndex = UAMP_UPDATE_QUEUE_SIZE - 1 THEN 0
              ELSE agent.recvIndex + 1
  IN IF presentErr # 0 THEN [agent |-> stored, ret |-> presentErr]
     ELSE IF orderErr # 0 THEN [agent |-> stored, ret |-> orderErr]
     ELSE [agent |-> [final EXCEPT !.aliveInQueue = agent.aliveInQueue + 1,
                                   !.recvIndex = next],
           ret |-> 0]

\* receiveReply(client, agent) for the wire reply w:
\* the new agent and the return value
receiveReply(c, agentID, w) ==
  LET agent == c.agents[agentID]
      storeReply == decodeReply(c, w)
      stored == [agent EXCEPT !.updates[agent.recvIndex] = storeReply]
      orderErr == verifyOrder(c, agent, storeReply)
      final == IF orderErr = 0 /\ setsFinal(c, agent, storeReply)
               THEN [stored EXCEPT !.receivedFinal = 1] ELSE stored
      presentErr == verifyPresent(storeReply)
      next == IF agent.recvIndex = UAMP_UPDATE_QUEUE_SIZE - 1 THEN 0
              ELSE agent.recvIndex + 1
  IN IF orderErr # 0 THEN [agent |-> stored, ret |-> orderErr]
     ELSE IF presentErr # 0 THEN [agent |-> final, ret |-> presentErr]
     ELSE [agent |-> [final EXCEPT !.aliveInQueue = agent.aliveInQueue + 1,
                                   !.recvIndex = next],
           ret |-> 0]

\* receiveReply(client, agent) when the socketRead that refills the buffer
\* fails after n bytes of the wire reply w were handed over (n is less
\* than replyBytes): the new agent.  socketRead32 writes a field when all
\* its four bytes have been read (ioBuffer.c, lines 47-50), and z of a 2D
\* session is written before the read of the present flag is tried.
receiveReplyPart(c, agentID, w, n) ==
  LET agent == c.agents[agentID]
      slot == agent.updates[agent.recvIndex]
  IN [agent EXCEPT
        !.updates[agent.recvIndex] =
           [time |-> IF n >= 4 THEN w.time ELSE slot.time,
            x |-> IF n >= 8 THEN w.x ELSE slot.x,
            y |-> IF n >= 12 THEN w.y ELSE slot.y,
            z |-> IF Has3D(c.serverFeatures)
                  THEN IF n >= 16 THEN w.z ELSE slot.z
                  ELSE IF n >= 12 THEN 0 ELSE slot.z,
            present |-> slot.present]]

(* ------------- queues.c: fillUpdateQueues / requestUpdates ------------- *)

\* a + b in a uint32_t with mod values (0: the sum is below 2^32)
uint32Sum(a, b, mod) == IF mod = 0 THEN a + b ELSE (a + b) % mod

\* mutant: the sum is used as it is
sumWrapped_Never(sum, totalRequests, requestsForAgent) == FALSE

\* the overflow test of fillUpdateQueues (line 108)
sumWrapped(sum, totalRequests, requestsForAgent) ==
  sum < totalRequests \/ sum < requestsForAgent

\* the for loop of fillUpdateQueues from (onAgent, startAgent,
\* totalRequests) up to its next call of requestUpdates, or to its end.
\* send: requestUpdates(startAgent, totalRequests) is called; more: the call
\* is the one inside the loop, which then resumes at (scanAgent, nextStart,
\* nextTotal).  The sum is a uint32_t sum, of which mod is the number of
\* values.
RECURSIVE fillScan(_, _, _, _, _)
fillScan(c, mod, onAgent, startAgent, totalRequests) ==
  IF onAgent >= c.numAgents
  THEN [send |-> totalRequests # 0, startAgent |-> startAgent,
        totalRequests |-> totalRequests, more |-> FALSE,
        scanAgent |-> onAgent, nextStart |-> startAgent,
        nextTotal |-> totalRequests]
  ELSE LET requestsForAgent == numToRequest(c, onAgent)
           sum == uint32Sum(totalRequests, requestsForAgent, mod)
       IN IF sumWrapped(sum, totalRequests, requestsForAgent)
          THEN [send |-> TRUE, startAgent |-> startAgent,
                totalRequests |-> totalRequests, more |-> TRUE,
                scanAgent |-> onAgent + 1, nextStart |-> onAgent,
                nextTotal |-> requestsForAgent]
          ELSE fillScan(c, mod, onAgent + 1, startAgent, sum)

\* the agent ids written by the write loop of requestUpdates
RECURSIVE requestIds(_, _, _, _)
requestIds(c, onAgent, onRequest, totalRequests) ==
  IF onRequest >= totalRequests THEN <<>>
  ELSE LET requestsForAgent == numToRequest(c, onAgent)
       IN [k \in 1..requestsForAgent |-> W32(onAgent)]
          \o requestIds(c, onAgent + 1, onRequest + requestsForAgent,
                        totalRequests)

\* the LOCATION_REQUEST written by requestUpdates
requestFrame(c, startAgent, totalRequests) ==
  <<W8(1), W32(totalRequests)>>
  \o requestIds(c, startAgent, 0, totalRequests)

\* the first n bytes of that LOCATION_REQUEST (n >= 1)
requestPart(c, startAgent, totalRequests, n) ==
  <<W8(1)>>
  \o partWords(Tail(requestFrame(c, startAgent, totalRequests)), n - 1)

\* the read loop of requestUpdates, run from the head of the while loop to
\* its next call of receiveReply (done = FALSE) or to its exit (done = TRUE)
RECURSIVE readPos(_, _, _, _)
readPos(c, onAgent, onRequest, totalRequests) ==
  IF onRequest >= totalRequests
  THEN [done |-> TRUE, onAgent |-> onAgent, onRequest |-> onRequest,
        requestsForAgent |-> 0]
  ELSE LET requestsForAgent == numToRequest(c, onAgent)
       IN IF requestsForAgent = 0
          THEN readPos(c, onAgent + 1, onRequest, totalRequests)
          ELSE [done |-> FALSE, onAgent |-> onAgent, onRequest |-> onRequest,
                requestsForAgent |-> requestsForAgent]

NoFill ==
  [startAgent |-> 0, totalRequests |-> 0, onAgent |-> 0, onRequest |-> 0,
   requestsForAgent |-> 0, i |-> 0, more |-> FALSE, scanAgent |-> 0,
   nextStart |-> 0, nextTotal |-> 0]

(* ------------------- uampClient.c: surfaced commands ------------------- *)

\* ((double)v) / 1000.0
Div1000(v) == <<v, 1000>>

uampCurrentCommand(c, agentID) ==
  LET last == getPreviousUpdate(c, agentID)
      current == getCurrentUpdate(c, agentID)
  IN [agentID |-> agentID,
      fromX |-> Div1000(last.x), fromY |-> Div1000(last.y),
      fromZ |-> Div1000(last.z), fromTime |-> Div1000(last.time),
      toX |-> Div1000(current.x), toY |-> Div1000(current.y),
      toZ |-> Div1000(current.z), toTime |-> Div1000(current.time),
      present |-> last.present]

\* (from + frac * delta) / 1000.0 with frac = (at - lastTime) / deltaT,
\* as the exact rational <<numerator, denominator>>
Interpolate(from, delta, at, lastTime, deltaT) ==
  <<from * deltaT + (at - lastTime) * delta, deltaT * 1000>>

\* the interpolated command of uampIntersectCommand (lines 285-306) for the
\* period from fromAt to toAt, both in milliseconds
interpolatedCommand(c, agentID, fromAt, toAt) ==
  LET last == getPreviousUpdate(c, agentID)
      current == getCurrentUpdate(c, agentID)
      deltaX == current.x - last.x
      deltaY == current.y - last.y
      deltaZ == current.z - last.z
      deltaT == current.time - last.time
  IN [agentID |-> agentID,
      fromTime |-> Div1000(fromAt),
      fromX |-> Interpolate(last.x, deltaX, fromAt, last.time, deltaT),
      fromY |-> Interpolate(last.y, deltaY, fromAt, last.time, deltaT),
      fromZ |-> Interpolate(last.z, deltaZ, fromAt, last.time, deltaT),
      toTime |-> Div1000(toAt),
      toX |-> Interpolate(last.x, deltaX, toAt, last.time, deltaT),
      toY |-> Interpolate(last.y, deltaY, toAt, last.time, deltaT),
      toZ |-> Interpolate(last.z, deltaZ, toAt, last.time, deltaT),
      present |-> last.present]

\* mutant: the command starts at the agent's own previous time
intersectPeriod_OwnFrom(c, agentID) ==
  interpolatedCommand(c, agentID, getPreviousUpdate(c, agentID).time,
                      c.smallestCurrentTime)

\* mutant: the command ends at the agent's own current time
intersectPeriod_OwnTo(c, agentID) ==
  interpolatedCommand(c, agentID, c.largestLastTime,
                      getCurrentUpdate(c, agentID).time)

\* uampIntersectCommand for an agent that has advanced: the command over
\* [largestLastTime, smallestCurrentTime] (lines 291 and 299)
intersectPeriod(c, agentID) ==
  interpolatedCommand(c, agentID, c.largestLastTime, c.smallestCurrentTime)

\* uampIntersectCommand: the return value and the command it fills in
uampIntersectCommand(c, agentID) ==
  LET current == getCurrentUpdate(c, agentID)
  IN IF c.largestLastTime > c.smallestCurrentTime
     THEN [ret |-> ERROR_NO_INTERSECTION, command |-> <<>>]
     ELSE IF current.time = 0
     THEN [ret |-> 0,
           command |->
             [agentID |-> agentID,
              fromTime |-> Div1000(0), toTime |-> Div1000(0),
              fromX |-> Div1000(current.x), toX |-> Div1000(current.x),
              fromY |-> Div1000(current.y), toY |-> Div1000(current.y),
              fromZ |-> Div1000(current.z), toZ |-> Div1000(current.z),
              present |-> current.present]]
     ELSE [ret |-> 0, command |-> intersectPeriod(c, agentID)]

\* mutant: the time limit itself counts as more data
uampIsMore_Inclusive(c, agentID) ==
  IF ~Below32(c.timeLimit, getCurrentUpdate(c, agentID).time) THEN 1 ELSE 0

uampIsMore(c, agentID) ==
  IF Below32(getCurrentUpdate(c, agentID).time, c.timeLimit) THEN 1 ELSE 0

uampIsAnyMore(c) ==
  IF Below32(c.smallestCurrentTime, c.timeLimit) THEN 1 ELSE 0

(* ------------------------ the running call ----------------------------- *)

\* the variables as one record, so that the C call chain can be composed
Machine ==
  [client |-> client, pc |-> pc, call |-> call, fill |-> fill, ret |-> ret,
   wire |-> wire, sent |-> sent, socketOpen |-> socketOpen,
   changed |-> changed, accepted |-> accepted, lastCommand |-> lastCommand,
   poisoned |-> poisoned, advances |-> advances,
   infectedAgents |-> infectedAgents, io |-> io]

\* what a call records of the session on entry
Snapshot(c) ==
  [fd |-> c.fd, numChanges |-> c.numChanges,
   smallestCurrentTime |-> c.smallestCurrentTime,
   largestLastTime |-> c.largestLastTime,
   time |-> [a \in DOMAIN c.agents |-> getCurrentUpdate(c, a).time],
   isMore |-> [a \in DOMAIN c.agents |-> uampIsMore(c, a)],
   currentIndex |-> [a \in DOMAIN c.agents |-> c.agents[a].currentIndex],
   aliveInQueue |-> [a \in DOMAIN c.agents |-> c.agents[a].aliveInQueue],
   recvIndex |-> [a \in DOMAIN c.agents |-> c.agents[a].recvIndex]]

\* handshake, response, offer: what a connect call was given and read, once
\* it has read it (<<>> before); states: <<stateNames, numStates>> of an
\* mvispConnect
\* op: the public function; agentID, update, i, oldest: its locals (update is
\* the ring index the C pointer refers to); pre: the session on entry;
\* advanced: per agent, the advanceAgent calls made so far by this call;
\* replies: the location replies this call has read so far; reply: <<the
\* last of them, as receiveReply stored it>>; nth: 2 when
\* the call is a uampTerminate that follows a uampTerminate, else 1;
\* atTime, newState: the arguments of a uampChangeState
NewCall(c, op, agentID) ==
  [op |-> op, agentID |-> agentID, update |-> 0, i |-> 0, oldest |-> 0,
   pre |-> Snapshot(c), advanced |-> [a \in DOMAIN c.agents |-> 0],
   replies |-> 0, nth |-> 1, atTime |-> NoTime, newState |-> 0,
   handshake |-> <<>>, response |-> <<>>, offer |-> <<>>, states |-> <<>>,
   reply |-> <<>>]

\* a public call returns value r
Return(m, r) == [m EXCEPT !.pc = "idle", !.ret = r, !.fill = NoFill]

\* uampInitialize (lines 48-52): the descriptor is forgotten, not closed,
\* and the agents are not freed; with numChanges at 0 no buffered change is
\* read again
initialize(c) ==
  [c EXCEPT !.fd = -1, !.agents = <<>>, !.numChanges = 0, !.changes = <<>>]

\* the isErr arm of uampConnect (lines 105-115)
connectCleanup(c) == [c EXCEPT !.fd = -1, !.agents = <<>>]

\* mutant: uampTerminate takes every session for a connected one
isConnected_Always(c) == TRUE

\* the test of uampTerminate for a connected session (line 205)
isConnected(c) == c.fd >= 0

\* the isErr arm of uampTerminate (lines 218-227)
terminateCleanup(c) == [c EXCEPT !.fd = -1, !.agents = <<>>]

\* mutant: the descriptor is forgotten without being closed
closeSocket_Never(m) == m.socketOpen

\* close(client->fd) when the descriptor is not negative
closeSocket(m) == IF m.client.fd >= 0 THEN FALSE ELSE m.socketOpen

\* mutant: the isErr arm of the connects leaves the socket open
Cleanup_NoClose(m) ==
  [m EXCEPT !.client = connectCleanup(m.client),
            !.accepted = <<>>, !.lastCommand = <<>>,
            !.advances = <<>>]

\* the isErr arm of uampConnect and mvispConnect on an error; the logs kept
\* of the agents end with their storage
Cleanup(m) ==
  [m EXCEPT !.client = connectCleanup(m.client),
            !.socketOpen = closeSocket(m),
            !.accepted = <<>>, !.lastCommand = <<>>,
            !.advances = <<>>]

\* the running call is uampConnect or mvispConnect
InConnect(m) == m.call.op \in {"connect", "mvispConnect"}

\* an error r of fillUpdateQueues propagates out of the running call
Unwind(m, r) ==
  IF InConnect(m)
  THEN Return(Cleanup(m), r)
  ELSE Return([m EXCEPT !.poisoned = TRUE], r)

(* ------------------------------ states.c ------------------------------ *)

\* stateNameLength: 0 or the error; a name is the sequence of its characters
stateNameLength(name) ==
  IF Len(name) = 0 THEN ERROR_ZERO_STATE_LENGTH
  ELSE IF Len(name) > MAX_NAME_LEN THEN ERROR_STATE_LENGTH_LONG
  ELSE 0

\* mutant: the length of every name is verified before any name is
\* compared with another
verifyFrom_LengthsFirst(stateNames, numStates, onState) ==
  LET bad == {k \in (onState + 1)..numStates :
                stateNameLength(stateNames[k]) # 0}
      twice == {k \in (onState + 1)..numStates :
                  \E prev \in 1..(k - 1) : stateNames[prev] = stateNames[k]}
  IN IF bad # {}
     THEN stateNameLength(stateNames[CHOOSE k \in bad :
                                       \A j \in bad : k <= j])
     ELSE IF twice # {} THEN ERROR_DUPLICATE_STATE
     ELSE 0

\* the for loop of verifyStates from onState (0-based, lines 51-63)
RECURSIVE verifyFrom(_, _, _)
verifyFrom(stateNames, numStates, onState) ==
  IF onState >= numStates THEN 0
  ELSE IF stateNameLength(stateNames[onState + 1]) # 0
  THEN stateNameLength(stateNames[onState + 1])
  ELSE IF \E prev \in 1..onState : stateNames[prev] = stateNames[onState + 1]
  THEN ERROR_DUPLICATE_STATE
  ELSE verifyFrom(stateNames, numStates, onState + 1)

\* verifyStates: 0 or the error (an int is never above UINT32_MAX)
verifyStates(stateNames, numStates) ==
  IF numStates <= 0 THEN ERROR_INVALID_NUMBER_STATES
  ELSE verifyFrom(stateNames, numStates, 0)

\* the message written by writeStates
writeStates(stateNames, numStates) ==
  <<W32(numStates)>>
  \o [k \in 1..numStates |-> W32(Len(stateNames[k]))]
  \o [k \in 1..numStates |-> WRaw(stateNames[k])]

\* the first n bytes of that message
writeStatesPart(stateNames, numStates, n) ==
  LET words == SubSeq(writeStates(stateNames, numStates), 1, 1 + numStates)
  IN IF n <= 4 * Len(words) THEN partWords(words, n)
     ELSE words \o partNames(SubSeq(stateNames, 1, numStates),
                             n - 4 * Len(words))

\* mutant: the frame announces one change fewer than it carries
flushFrame_ShortCount(c) ==
  <<W8(2), W32(c.numChanges - 1)>>
  \o [k \in 1..(3 * c.numChanges) |->
        LET e == c.changes[((k - 1) \div 3) + 1]
        IN W32(CASE (k - 1) % 3 = 0 -> e.agentID
                 [] (k - 1) % 3 = 1 -> e.time
                 [] OTHER -> e.newState)]

\* the message written by flushStateChanges (lines 152-173)
flushFrame(c) ==
  <<W8(2), W32(c.numChanges)>>
  \o [k \in 1..(3 * c.numChanges) |->
        LET e == c.changes[((k - 1) \div 3) + 1]
        IN W32(CASE (k - 1) % 3 = 0 -> e.agentID
                 [] (k - 1) % 3 = 1 -> e.time
                 [] OTHER -> e.newState)]

\* mutant: the buffer is emptied whether the write succeeded or not
flushStateChanges_AlwaysResets(m, writeErr) ==
  [m EXCEPT !.wire = @ \o flushFrame(m.client),
            !.sent = @ \o flushFrame(m.client),
            !.io = Append(@, IoFrame("write", flushTotal(m.client),
                                     TypedBytes(1, 1 + 3 * m.client.numChanges,
                                                0))),
            !.client.numChanges = 0,
            !.client.changes = <<>>,
            !.ret = writeErr]

\* flushStateChanges, its one socketWrite returning writeErr; the machine
\* afterwards, with the function's return value in ret
flushStateChanges(m, writeErr) ==
  [m EXCEPT !.wire = @ \o flushFrame(m.client),
            !.sent = @ \o flushFrame(m.client),
            !.io = Append(@, IoFrame("write", flushTotal(m.client),
                                     TypedBytes(1, 1 + 3 * m.client.numChanges,
                                                0))),
            !.client.numChanges = IF writeErr = 0 THEN 0 ELSE @,
            !.client.changes = IF writeErr = 0 THEN <<>> ELSE @,
            !.ret = writeErr]

\* changes[index] = e, for an index inside the array (counted from 0; the
\* model keeps the entries stored since the last successful flush)
storeChange(changes, index, e) ==
  IF index < Len(changes) THEN [changes EXCEPT ![index + 1] = e]
  ELSE Append(changes, e)

\* mutant: the full buffer is not flushed
addStateChange_NeverFlushes(m, agentID, time, newState, writeErr) ==
  [m EXCEPT
     !.client.changes = Append(@, [agentID |-> agentID, time |-> time,
                                   newState |-> newState]),
     !.client.numChanges = @ + 1,
     !.ret = 0]

\* addStateChange; the machine afterwards, with the return value in ret
addStateChange(m, agentID, time, newState, writeErr) ==
  LET m1 == [m EXCEPT
               !.client.changes =
                  storeChange(@, m.client.numChanges,
                              [agentID |-> agentID, time |-> time,
                               newState |-> newState]),
               !.client.numChanges = @ + 1,
               !.ret = 0]
  IN IF m1.client.numChanges = UAMP_STATE_BUFFER_SIZE
     THEN flushStateChanges(m1, writeErr)
     ELSE m1

\* addStateChange entered with numChanges >= UAMP_STATE_BUFFER_SIZE, as a
\* failed flush leaves it: the stores of lines 120-122 go past the end of
\* changes[], which is undefined.  The member after the array is numChanges
\* (uampClient.h:119-120), and the store of the agent id at index 128
\* (line 120) lands on it.  A build that reads numChanges again for every
\* statement (reloaded) finds the agent id there, stores the time and the
\* new state in changes[agentID] (lines 121-122; the agent id of that
\* entry stays) and increments the agent id (line 123); the ids of the
\* model's agents are below 128.  A build that keeps the index it read on
\* entry stores the time and the new state behind the array, outside the
\* fields of the session, and increments the value it read.  The entries
\* from index numChanges on are not read again before they are written.
addStateChangePastEnd(m, agentID, time, newState, writeErr, reloaded) ==
  LET c == m.client
      onto == reloaded /\ c.numChanges = UAMP_STATE_BUFFER_SIZE
      n == IF onto THEN agentID + 1 ELSE c.numChanges + 1
      entries == IF onto
                 THEN SubSeq([c.changes EXCEPT
                                ![agentID + 1].time = time,
                                ![agentID + 1].newState = newState], 1, n)
                 ELSE c.changes
      m1 == [m EXCEPT !.client.numChanges = n,
                      !.client.changes = entries,
                      !.ret = 0]
  IN IF n = UAMP_STATE_BUFFER_SIZE
     THEN flushStateChanges(m1, writeErr)
     ELSE m1

(* ---------------------- uampClient.c: cached times --------------------- *)

\* the smallest of the agents' current times
MinCurrentTime(c) ==
  LET times == {getCurrentUpdate(c, a).time : a \in Agents(c)}
  IN CHOOSE v \in times : \A u \in times : v <= u

\* mutant: smallestCurrentTime is never updated
advanceTimes_KeepsSmallest(c, agentID, update) ==
  LET t == c.agents[agentID].updates[update].time
  IN [c EXCEPT !.largestLastTime = IF t > @ THEN t ELSE @]

\* mutant: smallestCurrentTime is set to the largest current time
advanceTimes_LargestCurrent(c, agentID, update) ==
  LET t == c.agents[agentID].updates[update].time
      times == {getCurrentUpdate(c, a).time : a \in Agents(c)}
  IN [c EXCEPT !.largestLastTime = IF t > @ THEN t ELSE @,
               !.smallestCurrentTime =
                  IF t = @ THEN CHOOSE v \in times : \A u \in times : v >= u
                  ELSE @]

\* mutant: smallestCurrentTime is set to the advanced agent's new time
advanceTimes_OwnTime(c, agentID, update) ==
  LET t == c.agents[agentID].updates[update].time
  IN [c EXCEPT !.largestLastTime = IF t > @ THEN t ELSE @,
               !.smallestCurrentTime =
                  IF t = @ THEN getCurrentUpdate(c, agentID).time ELSE @]

\* mutant: largestLastTime is never updated
advanceTimes_NoLargest(c, agentID, update) ==
  LET t == c.agents[agentID].updates[update].time
  IN [c EXCEPT !.smallestCurrentTime =
                  IF t = @ THEN MinCurrentTime(c) ELSE @]

\* mutant: largestLastTime is set without comparing
advanceTimes_Overwrite(c, agentID, update) ==
  LET t == c.agents[agentID].updates[update].time
  IN [c EXCEPT !.largestLastTime = t,
               !.smallestCurrentTime =
                  IF t = @ THEN MinCurrentTime(c) ELSE @]

\* uampAdvance after advanceAgent returned 0 (lines 341-355)
advanceTimes(c, agentID, update) ==
  LET t == c.agents[agentID].updates[update].time
      largest == IF t > c.largestLastTime THEN t ELSE c.largestLastTime
      \* limit starts at UINT32_MAX, which no time exceeds, and there is at
      \* least one agent
      limit == MinCurrentTime(c)
  IN [c EXCEPT !.largestLastTime = largest,
               !.smallestCurrentTime =
                  IF t = c.smallestCurrentTime THEN limit
                  ELSE c.smallestCurrentTime]

RECURSIVE RunScan(_, _, _, _), AfterFill(_), OldestLoop(_, _),
          AdvanceBody(_, _)

\* requestUpdates up to its first receiveReply
BeginRequest(m, s) ==
  LET p == readPos(m.client, s.startAgent, 0, s.totalRequests)
  IN [m EXCEPT
        !.wire = @ \o requestFrame(m.client, s.startAgent, s.totalRequests),
        !.io = @ \o <<IoFrame("write", requestWriteTotal(s.totalRequests),
                              TypedBytes(1, 1 + Len(requestIds(m.client,
                                           s.startAgent, 0, s.totalRequests)),
                                         0)),
                      IoFrame("read",
                              requestReadTotal(m.client, s.totalRequests),
                              0)>>,
        !.pc = "fill",
        !.fill = [startAgent |-> s.startAgent,
                  totalRequests |-> s.totalRequests,
                  onAgent |-> p.onAgent, onRequest |-> p.onRequest,
                  requestsForAgent |-> p.requestsForAgent, i |-> 0,
                  more |-> s.more, scanAgent |-> s.scanAgent,
                  nextStart |-> s.nextStart, nextTotal |-> s.nextTotal]]

\* fillUpdateQueues, resumed at the head of its for loop
RunScan(m, onAgent, startAgent, totalRequests) ==
  LET s == fillScan(m.client, uint32Mod, onAgent, startAgent, totalRequests)
  IN IF s.send THEN BeginRequest(m, s) ELSE AfterFill(m)

fillUpdateQueues(m) == RunScan(m, 0, 0, 0)

\* fillUpdateQueues returned 0 to the running call
AfterFill(m) ==
  CASE InConnect(m) -> Return(m, 0)
    [] m.call.op = "advance" ->
         Return([m EXCEPT !.client = advanceTimes(m.client, m.call.agentID,
                                                  m.call.update)], 0)
    [] m.call.op = "advanceOldest" ->
         OldestLoop([m EXCEPT !.client = advanceTimes(m.client,
                                           m.call.agentID, m.call.update)],
                    m.call.i + 1)

\* mutant: every agent is advanced, whatever its current time
OldestLoop_All(m, i) ==
  IF i >= m.client.numAgents THEN Return(m, 0)
  ELSE AdvanceBody([m EXCEPT !.call.i = i], i)

\* mutant: the agents are compared with smallestCurrentTime as it is now,
\* not as it was on entry
OldestLoop_Live(m, i) ==
  IF i >= m.client.numAgents THEN Return(m, 0)
  ELSE IF getCurrentUpdate(m.client, i).time = m.client.smallestCurrentTime
       THEN AdvanceBody([m EXCEPT !.call.i = i], i)
       ELSE OldestLoop(m, i + 1)

\* the for loop of uampAdvanceOldest from index i (lines 378-384)
OldestLoop(m, i) ==
  IF i >= m.client.numAgents THEN Return(m, 0)
  ELSE IF getCurrentUpdate(m.client, i).time = m.call.oldest
       THEN AdvanceBody([m EXCEPT !.call.i = i], i)
       ELSE OldestLoop(m, i + 1)

\* mutant: the queues are refilled when two updates are alive
mustRefill_AtTwo(agent) == agent.aliveInQueue <= 2

\* the test that ends advanceAgent (queues.c, line 69), made on the agent
\* whose cursor has moved
mustRefill(agent) == agent.aliveInQueue = 1

\* uampAdvance(client, agentID) (lines 322-340), for either caller
AdvanceBody(m, agentID) ==
  LET c == m.client
      update == c.agents[agentID].currentIndex
      moved == advanceCursor(c.agents[agentID])
      m1 == [m EXCEPT !.client.agents[agentID] = moved,
                      !.call.agentID = agentID,
                      !.call.update = update,
                      !.call.advanced[agentID] = @ + 1,
                      !.advances[agentID] = @ + 1,
                      !.lastCommand[agentID] = <<uampCurrentCommand(c, agentID)>>]
  IN IF c.agents[agentID].updates[update].time = c.timeLimit
     THEN Return(m, ERROR_NO_MORE_DATA)
     ELSE IF mustRefill(moved) THEN fillUpdateQueues(m1)
     ELSE AfterFill(m1)

\* one receiveReply of the read loop of requestUpdates, for wire reply w
ReplyStep(m, w) ==
  LET f == m.fill
      r == receiveReply(m.client, f.onAgent, w)
      c1 == [m.client EXCEPT !.agents[f.onAgent] = r.agent]
      m0 == [m EXCEPT !.client = c1, !.call.replies = @ + 1,
                      !.call.reply = <<decodeReply(m.client, w)>>,
                      !.io[Len(m.io)].passed = @ + replyBytes(m.client)]
      m1 == [m0 EXCEPT !.accepted[f.onAgent] =
                          Append(@, decodeReply(m.client, w))]
      p == readPos(c1, f.onAgent + 1, f.onRequest + f.requestsForAgent,
                   f.totalRequests)
  IN IF r.ret # 0 THEN Unwind(m0, r.ret)
     ELSE IF f.i + 1 < f.requestsForAgent
          THEN [m1 EXCEPT !.fill.i = f.i + 1]
     ELSE IF ~p.done
          THEN [m1 EXCEPT !.fill.onAgent = p.onAgent,
                          !.fill.onRequest = p.onRequest,
                          !.fill.requestsForAgent = p.requestsForAgent,
                          !.fill.i = 0]
     ELSE IF f.more
          THEN RunScan(m1, f.scanAgent, f.nextStart, f.nextTotal)
     ELSE AfterFill(m1)

\* the offset in the read frame at which the next receiveReply finds the
\* buffer empty and calls socketRead (ioBuffer.c, line 84): each socketRead
\* brings a whole buffer or the rest of the frame, so the buffer is empty
\* at the multiples of its size; -1 when the bytes of the next reply are
\* all in the buffer
refillAt(m) ==
  LET passed == m.io[Len(m.io)].passed
      at == ((passed + UAMP_IO_BUFFER_SIZE - 1) \div UAMP_IO_BUFFER_SIZE)
            * UAMP_IO_BUFFER_SIZE
  IN IF at < passed + replyBytes(m.client) THEN at ELSE -1

\* that socketRead fails: the receiveReply of wire reply w has stored what
\* it read before
ReplyCut(m, w) ==
  LET passed == m.io[Len(m.io)].passed
  IN [m EXCEPT
        !.client.agents[m.fill.onAgent] =
           receiveReplyPart(m.client, m.fill.onAgent, w,
                            refillAt(m) - passed),
        !.io[Len(m.io)].passed = refillAt(m)]

\* the k-th socketWrite of the request written last fails: the bytes
\* passed by then are those given to socketWrite, and beginRead is not
\* reached
RequestCut(m, k) ==
  LET f == m.fill
      total == requestWriteTotal(f.totalRequests)
      whole == Len(requestFrame(m.client, f.startAgent, f.totalRequests))
      n == passedAtWrite(total, k)
  IN [m EXCEPT
        !.wire = SubSeq(@, 1, Len(@) - whole)
                 \o requestPart(m.client, f.startAgent, f.totalRequests, n),
        !.io = [SubSeq(@, 1, Len(@) - 1) EXCEPT ![Len(@) - 1].passed = n]]

Set(m) ==
  /\ client' = m.client
  /\ pc' = m.pc
  /\ call' = m.call
  /\ fill' = m.fill
  /\ ret' = m.ret
  /\ wire' = m.wire
  /\ sent' = m.sent
  /\ socketOpen' = m.socketOpen
  /\ changed' = m.changed
  /\ accepted' = m.accepted
  /\ lastCommand' = m.lastCommand
  /\ poisoned' = m.poisoned
  /\ advances' = m.advances
  /\ infectedAgents' = m.infectedAgents
  /\ io' = m.io
  /\ UNCHANGED <<commBuf, traffic, uint32Mod>>

(* ----------------------- uampClient.c: handshake ----------------------- *)

\* mutant: the version mask is checked before the role tag
negotiate_VersionFirst(isUAMP, supportedFeatures, srv) ==
  IF (srv.ver \div SUPPORTED_VERSION) % 2 = 0 THEN ERROR_NO_SHARED_VERSION
  ELSE IF isUAMP /\ srv.id = "MVIS" THEN ERROR_UAMP_CLIENT_MVISP_SERVER
  ELSE IF isUAMP /\ srv.id # "UAMP" THEN ERROR_SERVER_UNKNOWN_HANDSHAKE
  ELSE IF ~isUAMP /\ srv.id = "UAMP" THEN ERROR_MVISP_CLIENT_UAMP_SERVER
  ELSE IF ~isUAMP /\ srv.id # "MVIS" THEN ERROR_SERVER_UNKNOWN_HANDSHAKE
  ELSE IF Has3D(srv.features) /\ ~Has3D(supportedFeatures)
  THEN ERROR_2D_CLIENT_3D_SERVER
  ELSE IF HasAddRemove(srv.features) /\ ~HasAddRemove(supportedFeatures)
  THEN ERROR_ADD_REMOVE_UNSUPPORTED
  ELSE 0

\* the checks of performHandshake on the server's 9-byte block (lines
\* 463-497): the error of the first check that fails, 0 when all pass
negotiate(isUAMP, supportedFeatures, srv) ==
  LET idErr ==
        IF isUAMP
        THEN IF srv.id = "MVIS" THEN ERROR_UAMP_CLIENT_MVISP_SERVER
             ELSE IF srv.id # "UAMP" THEN ERROR_SERVER_UNKNOWN_HANDSHAKE
             ELSE 0
        ELSE IF srv.id = "UAMP" THEN ERROR_MVISP_CLIENT_UAMP_SERVER
             ELSE IF srv.id # "MVIS" THEN ERROR_SERVER_UNKNOWN_HANDSHAKE
             ELSE 0
      verErr == IF (srv.ver \div SUPPORTED_VERSION) % 2 = 0
                THEN ERROR_NO_SHARED_VERSION ELSE 0
      featErr ==
        IF Has3D(srv.features) /\ ~Has3D(supportedFeatures)
        THEN ERROR_2D_CLIENT_3D_SERVER
        ELSE IF HasAddRemove(srv.features) /\ ~HasAddRemove(supportedFeatures)
        THEN ERROR_ADD_REMOVE_UNSUPPORTED
        ELSE 0
  IN IF idErr # 0 THEN idErr
     ELSE IF verErr # 0 THEN verErr ELSE featErr

\* mutant: any acknowledgement other than the chosen version is a rejection
acknowledge_AllRejected(ack) ==
  IF ack # SUPPORTED_VERSION THEN ERROR_SERVER_REJECTED_HANDSHAKE ELSE 0

\* the check of the server's acknowledgement byte (lines 510-513)
acknowledge(ack) ==
  IF ack = 0 THEN ERROR_SERVER_REJECTED_HANDSHAKE
  ELSE IF ack # SUPPORTED_VERSION THEN ERROR_SERVER_CLIENT_VERSION_DISAGREE
  ELSE 0

\* mutant: the reject byte is written after every failure
rejectWrite_OnAnyError(sendReject, wasErr) ==
  IF sendReject \/ wasErr # 0 THEN <<W8(0)>> ELSE <<>>

\* the isErr arm of performHandshake (lines 515-519); the result of this
\* socketWrite is ignored
rejectWrite(sendReject, wasErr) == IF sendReject THEN <<W8(0)>> ELSE <<>>

\* performHandshake for the server's handshake block and acknowledgement:
\* the return value, the writes made, and client->serverFeatures afterwards.
\* srv.io tells which socket call of the handshake fails, and how: at = 1 the
\* write of the client's 9 bytes, 2 the read of the server's 9 bytes (one
\* socketRead, made by the first socketReadRaw), 3 the write of the version
\* choice, 4 the read of the acknowledgement; at = 0: none fails
performHandshake(c, isUAMP, supportedFeatures, srv) ==
  LET hello == <<WRaw(IF isUAMP THEN "UAMP" ELSE "MVIS"),
                 W8(SUPPORTED_VERSION), W32(supportedFeatures)>>
      choice == <<W8(SUPPORTED_VERSION)>>
      reject == negotiate(isUAMP, supportedFeatures, srv)
      ackErr == acknowledge(srv.ack)
      helloFrame == IoFrame("write", 9, TypedBytes(1, 1, 4))
      out(r, w, sendReject, features) ==
        [ret |-> r, wire |-> w \o rejectWrite(sendReject, r),
         serverFeatures |-> features,
         io |-> IF w = <<>> THEN <<>>
                ELSE IF srv.io.at = 1 THEN <<helloFrame>>
                ELSE IF srv.io.at = 2
                THEN <<helloFrame, IoFrame("read", 9, 0)>>
                ELSE <<helloFrame,
                       IoFrame("read", 9, TypedBytes(1, 1, 4))>>]
  IN IF OtherFeatureBits(supportedFeatures) # {}
     THEN out(ERROR_INVALID_FEATURES, <<>>, FALSE, c.serverFeatures)
     ELSE IF srv.io.at = 1
     THEN out(srv.io.err, hello, FALSE, c.serverFeatures)
     ELSE IF srv.io.at = 2
     THEN out(srv.io.err, hello, FALSE, c.serverFeatures)
     ELSE IF reject # 0
     THEN out(reject, hello, TRUE, srv.features)
     ELSE IF srv.io.at = 3
     THEN out(srv.io.err, hello \o choice, FALSE, srv.features)
     ELSE IF srv.io.at = 4
     THEN out(srv.io.err, hello \o choice, FALSE, srv.features)
     ELSE out(ackErr, hello \o choice, FALSE, srv.features)

(* --------------------------- the environment --------------------------- *)

\* arguments of uampConnect: numAgents, timeLimit (given in milliseconds:
\* the double timeLimit is ms / 1000 and llround(timeLimit * 1000.0) = ms),
\* seed, supportedFeatures
NumAgentsInputs == {0, 1, 2}

TimeLimitInputs == {-1, 0, MaxTimeLimit}

SeedInputs == {42}

FeatureInputs ==
  {UAMP_NO_EXTRAS, UAMP_SUPPORTS_3D \cup UAMP_SUPPORTS_ADD_REMOVE, {0}}

\* results of callSocket: the descriptor of the connected socket, or the
\* error of the step that failed (the port, the host name, socket() or
\* connect()); no socket is left open when it fails
SocketResults ==
  {SOCKET_FD, ERROR_INVALID_PORT, ERROR_HOSTNAME_INFORMATION,
   ERROR_CREATE_SOCKET, ERROR_CONNECT_SOCKET}

\* the socket call of the handshake that fails, and its return value
HandshakeIO ==
  {[at |-> 0, err |-> 0],
   [at |-> 1, err |-> ERROR_SOCKET_WRITE],
   [at |-> 2, err |-> ERROR_SOCKET_DRY],
   [at |-> 2, err |-> ERROR_SOCKET_READ],
   [at |-> 3, err |-> ERROR_SOCKET_WRITE],
   [at |-> 4, err |-> ERROR_SOCKET_DRY],
   [at |-> 4, err |-> ERROR_SOCKET_READ]}

\* the server's 9-byte handshake block and its acknowledgement byte, and
\* the fate of the socket calls that carry them
ServerHandshakes ==
  [id : {"UAMP", "MVIS", "HTTP"}, ver : {SUPPORTED_VERSION, 64},
   features : {UAMP_NO_EXTRAS, UAMP_SUPPORTS_3D, UAMP_SUPPORTS_ADD_REMOVE,
               UAMP_SUPPORTS_3D \cup UAMP_SUPPORTS_ADD_REMOVE},
   ack : {SUPPORTED_VERSION, 0, 64},
   io : HandshakeIO]

\* the outcome of the simulation request: the response byte read, or the
\* return value of the socket call that fails (ERROR_SOCKET_WRITE: the write
\* of the request; the others: the read of the response)
ServerResponses ==
  {0, 1, 2, ERROR_SOCKET_WRITE, ERROR_SOCKET_DRY, ERROR_SOCKET_READ}

\* the trajectory the server simulates: where an agent is at time t
OnTrajectory(t) ==
  [time |-> t, x |-> 100 + t, y |-> 200 + 2 * t, z |-> 300 + 3 * t,
   present |-> 1]

\* replies that differ from u in one field
OffBy(u) ==
  {[u EXCEPT !.x = @ + 1], [u EXCEPT !.y = @ + 1], [u EXCEPT !.z = @ + 1],
   [u EXCEPT !.present = 0]}

\* the time of the last reply the server sent to the agent (-1: none yet)
LastSent(log) == IF log = <<>> THEN -1 ELSE log[Len(log)].time

\* the times a server may send to an agent whose last reply had time last:
\* the first reply at 0 or 1; then the same time again, up to MaxStep later,
\* the time limit, or one past it (of a time limit of UINT32_MAX: one
\* millisecond later, up to MaxTimeLimit)
ServerTimes(c, last) ==
  IF last < 0 THEN {0, 1}
  ELSE IF c.timeLimit = UINT32_MAX
  THEN {t \in {last + 1} : t <= MaxTimeLimit}
  ELSE {t \in last..(c.timeLimit + 1) :
          t <= last + MaxStep \/ t >= c.timeLimit}

\* the location replies a server may send to such an agent: on the
\* trajectory at one of these times; with a present byte that is not a flag;
\* and, once it has sent the time limit, off the trajectory in one field
ServerReplies(c, last) ==
  {OnTrajectory(t) : t \in ServerTimes(c, last)}
  \cup {[OnTrajectory(t) EXCEPT !.present = 2] :
          t \in ServerTimes(c, last) \cap (last..(last + 1))}
  \cup (IF last = c.timeLimit THEN OffBy(OnTrajectory(c.timeLimit)) ELSE {})

\* arguments of mvispConnect: the state names, each the sequence of its
\* characters, and numStates
StateNameInputs ==
  {[stateNames |-> <<>>, numStates |-> 0],
   [stateNames |-> <<<<"a">>>>, numStates |-> 1],
   [stateNames |-> <<<<"a">>, <<"b", "c">>>>, numStates |-> 2],
   [stateNames |-> <<<<"a">>, <<"a">>>>, numStates |-> 2],
   [stateNames |-> <<<<"a">>, <<>>>>, numStates |-> 2],
   [stateNames |-> <<<<"a">>, <<"a">>, <<>>>>, numStates |-> 3],
   [stateNames |-> <<<<"a">>, <<>>, <<"a">>>>, numStates |-> 3],
   [stateNames |-> <<>>, numStates |-> -1],
   [stateNames |-> <<[k \in 1..MAX_NAME_LEN |-> "x"]>>, numStates |-> 1],
   [stateNames |-> <<[k \in 1..MAX_NAME_LEN |-> "x"],
                     [k \in 1..MAX_NAME_LEN |-> "y"]>>, numStates |-> 2],
   [stateNames |-> <<[k \in 1..(MAX_NAME_LEN + 1) |-> "x"]>>,
    numStates |-> 1]}

AcceptInputs == {"none", "accepts", "denies"}

\* the simulation specification an MVISP server sends (the u32 number of
\* agents as its bit 31, high, and its lower bits, numAgents; timeLimit in
\* milliseconds), and which socket call after the handshake fails: at = 1
\* the read of the specification, at = 2 and at = 3 the first and the
\* second socketWrite of the message that answers it (the second is made
\* for a state block of more than UAMP_IO_BUFFER_SIZE bytes only)
ServerOffers ==
  [high : {0, 1}, numAgents : {0, 1, 2}, timeLimit : {0, 1},
   io : {[at |-> 0, err |-> 0],
         [at |-> 1, err |-> ERROR_SOCKET_DRY],
         [at |-> 1, err |-> ERROR_SOCKET_READ],
         [at |-> 2, err |-> ERROR_SOCKET_WRITE],
         [at |-> 3, err |-> ERROR_SOCKET_WRITE]}]

\* arguments of the uampChangeState call made when n changes have been
\* accepted.  On an MVISP session: the agent, time and state of the caller's
\* n-th change, or a time or a state out of range in its place; the times
\* are whole milliseconds or 0.4 ms off, a time out of range is negative,
\* above the time limit or above UAMP_MAX_TIME, and the arguments out of
\* range vary with n.  On a session whose time limit is UINT32_MAX the
\* times are those around UAMP_MAX_TIME.  On a UAMP session, which ignores
\* them: arguments in and out of range, which vary with the time the
\* session has reached.
ChangeAgents(c, n) ==
  IF c.numStates = 0 THEN {-1, 0, c.numAgents} ELSE {n % c.numAgents}

\* the time of so many tenths of a millisecond
Tenths(n) == [seconds |-> 0, tenths |-> n]

\* the time so many tenths of a millisecond after UAMP_MAX_TIME (before
\* it, for a negative number)
PastMax(n) == [UAMP_MAX_TIME EXCEPT !.tenths = @ + n]

ChangeTimesAtMax(n) ==
  LET inRange == CASE n % 3 = 0 -> PastMax(0)
                   [] n % 3 = 1 -> PastMax(-4)
                   [] OTHER -> PastMax(-10)
      bad == CASE n % 4 = 0 -> PastMax(1)
               [] n % 4 = 1 -> Tenths(-4)
               [] n % 4 = 2 -> PastMax(4)
               [] OTHER -> PastMax(10)
  IN {inRange, bad}

ChangeTimes(c, n) ==
  LET t == n % (c.timeLimit + 1)
      off == CASE n % 3 = 0 -> 0
               [] n % 3 = 1 -> 4
               [] OTHER -> IF t > 0 THEN -4 ELSE 0
      bad == CASE n % 6 = 0 -> Tenths(-4)
               [] n % 6 = 1 -> Tenths(10 * c.timeLimit + 6)
               [] n % 6 = 2 -> PastMax(10)
               [] n % 6 = 3 -> Tenths(10 * c.timeLimit + 10)
               [] n % 6 = 4 -> Tenths(-10)
               [] OTHER -> PastMax(1)
      ignored == CASE c.smallestCurrentTime % 3 = 0 -> Tenths(-10)
                   [] c.smallestCurrentTime % 3 = 1 -> PastMax(10)
                   [] OTHER -> NoTime
  IN IF c.numStates = 0 THEN {ignored}
     ELSE IF c.timeLimit = UINT32_MAX THEN ChangeTimesAtMax(n)
     ELSE {Tenths(10 * t + off), bad}

ChangeStates(c, n) ==
  IF c.numStates = 0 THEN {(c.smallestCurrentTime % 2) - 1}
  ELSE {(n \div 2) % c.numStates, IF n % 2 = 0 THEN -1 ELSE c.numStates}

\* return values of the socketWrite of a flush made by uampChangeState (it
\* makes one when the change fills the buffer)
FlushResults(c) ==
  IF c.numStates # 0 /\ c.numChanges + 1 = UAMP_STATE_BUFFER_SIZE
  THEN {0, ERROR_SOCKET_WRITE} ELSE {0}

\* which socketWrite call of uampTerminate fails (0: none): it makes none
\* when not connected, one for the flush when changes are buffered, and one
\* for the termination frame
TerminateFailures(c) ==
  IF c.fd < 0 THEN {0} ELSE IF c.numChanges = 0 THEN {0, 1} ELSE {0, 1, 2}

(* ------------------------------ actions -------------------------------- *)

\* uampInitialize: the other fields of the structure are not yet written
\* and are not read before a connect writes them
Constructed ==
  /\ client = [fd |-> -1, serverFeatures |-> {}, numAgents |-> 0,
               timeLimit |-> 0, numStates |-> 0, agents |-> <<>>,
               largestLastTime |-> 0, smallestCurrentTime |-> 0,
               changes |-> <<>>, numChanges |-> 0]
  /\ pc = "idle"
  /\ call = NewCall(client, "none", 0)
  /\ fill = NoFill
  /\ ret = 0
  /\ wire = <<>>
  /\ sent = <<>>
  /\ socketOpen = FALSE
  /\ changed = <<>>
  /\ accepted = <<>>
  /\ lastCommand = <<>>
  /\ poisoned = FALSE
  /\ advances = <<>>
  /\ infectedAgents = 0
  /\ io = <<>>
  /\ commBuf = [total |-> 0, passed |-> 0, inBuffer |-> 0, buffer |-> <<>>]
  /\ traffic = NoSocket

Init == Constructed /\ uint32Mod = 0

\* the library built with a uint32_t of WordBits - 1 or WordBits bits
InitWord ==
  /\ Constructed
  /\ uint32Mod \in {2 ^ (WordBits - 1), 2 ^ WordBits}

\* mutant: only the byte 0x01 refuses the simulation
responseError_OnlyDenied(response) ==
  IF response = 1 THEN ERROR_SIMULATION_DENIED ELSE 0

\* the test of the server's response byte (uampConnect, lines 95-98): 0 or
\* the error
responseError(response) ==
  IF response = 1 THEN ERROR_SIMULATION_DENIED
  ELSE IF response # 0 THEN ERROR_SIMULATION_RESPONSE_BAD
  ELSE 0

\* uampConnect up to its return or to the first receiveReply of
\* initializeQueues.  The time limits given are at most MaxTimeLimit
\* milliseconds, so the test timeLimit > UAMP_MAX_TIME (line 65) is not
\* met, and calloc (line 70) returns memory.
connectBody(m, numAgents, timeLimit, seed, supportedFeatures, sock, srv, response) ==
  LET c0 == initialize(m.client)
      c1 == [c0 EXCEPT !.agents = [a \in 0..(numAgents - 1) |-> ZeroAgent],
                       !.numAgents = numAgents,
                       !.timeLimit = timeLimit,
                       !.numStates = 0]
      hs == performHandshake(c1, TRUE, supportedFeatures, srv)
      c2 == [c1 EXCEPT !.fd = sock, !.serverFeatures = hs.serverFeatures]
      request == <<W32(numAgents), W32(timeLimit), W32(seed)>>
      c3 == [c2 EXCEPT !.smallestCurrentTime = 0, !.largestLastTime = 0]
      fresh == [a \in 0..(numAgents - 1) |-> <<>>]
      requested == hs.io \o <<IoFrame("write", 12, TypedBytes(0, 3, 0))>>
      m0 == [m EXCEPT !.call = NewCall(c0, "connect", 0), !.wire = <<>>,
                      !.io = <<>>,
                      !.sent = <<>>, !.changed = <<>>, !.ret = 0]
      open == [m0 EXCEPT !.socketOpen = TRUE,
                         !.call.handshake = <<supportedFeatures, srv>>]
  \* an int numAgents is never above UINT32_MAX, and no time limit a model
  \* integer can hold is above UAMP_MAX_TIME
  IN IF numAgents <= 0
     THEN Return(Cleanup([m0 EXCEPT !.client = c0]),
                 ERROR_INVALID_NUM_AGENTS)
     ELSE IF timeLimit < 0
     THEN Return(Cleanup([m0 EXCEPT !.client = c0]),
                 ERROR_INVALID_TIME_LIMIT)
     ELSE IF sock < 0
     THEN Return(Cleanup([m0 EXCEPT !.client = [c1 EXCEPT !.fd = sock]]),
                 sock)
     ELSE IF hs.ret # 0
     THEN Return(Cleanup([open EXCEPT !.client = c2, !.wire = hs.wire,
                                      !.io = hs.io]),
                 hs.ret)
     ELSE IF response < 0
     THEN Return(Cleanup([open EXCEPT !.client = c2,
                                      !.wire = hs.wire \o request,
                                      !.io = requested]),
                 response)
     ELSE IF responseError(response) # 0
     THEN Return(Cleanup([open EXCEPT !.client = c2,
                                      !.call.response = <<response>>,
                                      !.wire = hs.wire \o request,
                                      !.io = requested]),
                 responseError(response))
     ELSE fillUpdateQueues(
            [open EXCEPT !.client = c3, !.wire = hs.wire \o request,
                         !.io = requested,
                         !.call = [NewCall(c3, "connect", 0) EXCEPT
                                     !.handshake = <<supportedFeatures, srv>>,
                                     !.response = <<response>>],
                         !.accepted = fresh, !.lastCommand = fresh,
                         !.advances = [a \in DOMAIN fresh |-> 0]])

\* mutant: only the acceptance function refuses a specification
refuses_OnlyWhenAsked(offer, acceptFunc) == acceptFunc = "denies"

\* the test of the specification (mvispConnect, line 160): a number of
\* agents above INT_MAX has bit 31 set
refuses(offer, acceptFunc) == offer.high = 1 \/ acceptFunc = "denies"

\* the test of line 160 calls acceptFunc: the number of agents fits an int
\* and the pointer is not NULL
callsBack(offer, acceptFunc) == offer.high = 0 /\ acceptFunc # "none"

\* which socketWrite call of a message of total bytes written after the
\* specification fails (0: none): the first when the descriptor is no longer
\* one (write() on -1 fails), else the call that offer.io names
failingWrite(c, offer, total) ==
  IF c.fd < 0 THEN 1
  ELSE IF offer.io.at >= 2 /\ offer.io.at - 1 <= writeCalls(total)
  THEN offer.io.at - 1
  ELSE 0

\* the return value of that socketWrite
writeResult(c, offer) ==
  IF c.fd < 0 THEN ERROR_SOCKET_WRITE ELSE offer.io.err

\* mvispConnect from the test of the specification on (lines 160-180), the
\* specification read and acceptFunc, if it was called, having returned:
\* up to its return or to the first receiveReply of initializeQueues
mvispAnswer(m) ==
  LET stateNames == m.call.states[1]
      numStates == m.call.states[2]
      offer == m.call.offer[1]
      acceptFunc == m.call.offer[2]
      c1 == m.client
      c2 == [c1 EXCEPT
               !.agents = [a \in 0..(offer.numAgents - 1) |-> ZeroAgent],
               !.numAgents = offer.numAgents,
               !.timeLimit = offer.timeLimit,
               !.numStates = numStates]
      c3 == [c2 EXCEPT !.smallestCurrentTime = 0, !.largestLastTime = 0]
      denial == <<W32(0)>>
      fresh == [a \in 0..(offer.numAgents - 1) |-> <<>>]
      total == statesTotal(stateNames, numStates)
      failed == failingWrite(c1, offer, total)
      denied == Append(m.io, IoFrame("write", 4, TypedBytes(0, 1, 0)))
      stated(passed) == Append(m.io, IoFrame("write", total, passed))
  IN IF refuses(offer, acceptFunc)
     THEN Return(Cleanup([m EXCEPT !.wire = @ \o denial, !.io = denied]),
                 IF failingWrite(c1, offer, 4) # 0 THEN writeResult(c1, offer)
                 ELSE ERROR_SIMULATION_DENIED)
     ELSE IF failed # 0
     THEN Return(Cleanup([m EXCEPT
                            !.client = c2,
                            !.io = stated(passedAtWrite(total, failed)),
                            !.wire = @ \o writeStatesPart(
                                            stateNames, numStates,
                                            passedAtWrite(total, failed))]),
                 writeResult(c1, offer))
     ELSE fillUpdateQueues(
            [m EXCEPT !.client = c3, !.io = stated(total),
                      !.wire = @ \o writeStates(stateNames, numStates),
                      !.call = [NewCall(c3, "mvispConnect", 0) EXCEPT
                                  !.handshake = m.call.handshake,
                                  !.offer = m.call.offer,
                                  !.states = m.call.states],
                      !.accepted = fresh, !.lastCommand = fresh,
                      !.advances = [a \in DOMAIN fresh |-> 0]])

\* mvispConnect up to its return, to the call of acceptFunc (pc = "accept":
\* the specification is read, the descriptor is open and no agent is
\* allocated) or to the first receiveReply of initializeQueues.
\* acceptFunc: "none" (a NULL pointer), "accepts" (returns 0) or "denies";
\* offer: the specification the server sends and the socket call after the
\* handshake that fails (io.at = 1: the read of the specification; 2, 3,
\* ...: the first, second, ... socketWrite of the denial or of the state
\* block that answers it; a write of the requests that follow fails by
\* SocketWriteFails)
mvispBody(m, stateNames, numStates, acceptFunc, supportedFeatures, sock, srv, offer) ==
  LET c0 == initialize(m.client)
      verified == verifyStates(stateNames, numStates)
      hs == performHandshake(c0, FALSE, supportedFeatures, srv)
      c1 == [c0 EXCEPT !.fd = sock, !.serverFeatures = hs.serverFeatures]
      given == <<stateNames, numStates>>
      m0 == [m EXCEPT !.call = [NewCall(c0, "mvispConnect", 0) EXCEPT
                                  !.states = given],
                      !.ret = 0, !.io = <<>>,
                      !.wire = <<>>, !.sent = <<>>, !.changed = <<>>]
      open == [m0 EXCEPT !.socketOpen = TRUE, !.client = c1,
                         !.call.handshake = <<supportedFeatures, srv>>]
      offerRead == hs.io \o <<IoFrame("read", 8, TypedBytes(0, 2, 0))>>
      read == [open EXCEPT !.call.offer = <<offer, acceptFunc>>,
                           !.io = offerRead, !.wire = hs.wire]
  IN IF verified # 0
     THEN Return(Cleanup([m0 EXCEPT !.client = c0]), verified)
     ELSE IF sock < 0
     THEN Return(Cleanup([m0 EXCEPT !.client = [c0 EXCEPT !.fd = sock]]),
                 sock)
     ELSE IF hs.ret # 0
     THEN Return(Cleanup([open EXCEPT !.wire = hs.wire, !.io = hs.io]),
                 hs.ret)
     ELSE IF offer.io.at = 1
     THEN Return(Cleanup([open EXCEPT
                            !.wire = hs.wire,
                            !.io = hs.io \o <<IoFrame("read", 8, 0)>>]),
                 offer.io.err)
     ELSE IF offer.high = 0 /\ offer.numAgents = 0
     THEN Return(Cleanup(read), ERROR_MVISP_NO_AGENTS)
     ELSE IF callsBack(offer, acceptFunc)
     THEN [read EXCEPT !.pc = "accept"]
     ELSE mvispAnswer(read)

(* --------------- uampClient.c: the arithmetic of a double --------------- *)

\* the bits of the positive integer n, the most significant first (<<>>
\* for 0)
RECURSIVE BitsOf(_)
BitsOf(n) == IF n = 0 THEN <<>> ELSE Append(BitsOf(n \div 2), n % 2)

\* the integer whose bits are given
RECURSIVE ValueOf(_)
ValueOf(bits) ==
  IF bits = <<>> THEN 0
  ELSE 2 * ValueOf(SubSeq(bits, 1, Len(bits) - 1)) + bits[Len(bits)]

\* the bits of the integer one above
RECURSIVE Increment(_)
Increment(bits) ==
  IF bits = <<>> THEN <<1>>
  ELSE IF bits[Len(bits)] = 0 THEN [bits EXCEPT ![Len(bits)] = 1]
  ELSE Append(Increment(SubSeq(bits, 1, Len(bits) - 1)), 0)

\* the bits of the significand of a double
DBL_MANT_DIG == 53

\* the double nearest to ValueOf(bits) * 2^exp + (something below
\* 2^exp when sticky), ties to the even significand: its significand, of
\* at most DBL_MANT_DIG bits and beginning with 1, and the exponent of the
\* last of them
roundToDouble(bits, exp, sticky) ==
  IF Len(bits) <= DBL_MANT_DIG THEN [bits |-> bits, exp |-> exp]
  ELSE LET kept == SubSeq(bits, 1, DBL_MANT_DIG)
           below == \/ sticky
                    \/ \E k \in (DBL_MANT_DIG + 2)..Len(bits) : bits[k] = 1
           up == /\ bits[DBL_MANT_DIG + 1] = 1
                 /\ (below \/ kept[DBL_MANT_DIG] = 1)
           rounded == IF up THEN Increment(kept) ELSE kept
           dropped == Len(bits) - DBL_MANT_DIG
       IN IF Len(rounded) > DBL_MANT_DIG
          THEN [bits |-> SubSeq(rounded, 1, DBL_MANT_DIG),
                exp |-> exp + dropped + 1]
          ELSE [bits |-> rounded, exp |-> exp + dropped]

\* the binary expansion of (ValueOf(bits) + r / den) * 2^n, continued
\* until it has one bit more than a significand or is exact: bits, the
\* number n of bits after the point, and whether a remainder is left
RECURSIVE expand(_, _, _, _)
expand(bits, r, den, n) ==
  IF r = 0 \/ Len(bits) > DBL_MANT_DIG
  THEN [bits |-> bits, exp |-> -n, sticky |-> r # 0]
  ELSE LET bit == IF 2 * r >= den THEN 1 ELSE 0
       IN expand(IF bits = <<>> /\ bit = 0 THEN <<>> ELSE Append(bits, bit),
                 2 * r - bit * den, den, n + 1)

\* the double that the decimal whole + num / den denotes (whole >= 0,
\* 0 <= num < den, not both 0)
doubleOf(whole, num, den) ==
  LET e == expand(BitsOf(whole), num, den, 0)
  IN roundToDouble(e.bits, e.exp, e.sticky)

\* bits[1..i] * k + carry, as bits in front of acc
RECURSIVE timesFrom(_, _, _, _, _)
timesFrom(bits, i, k, carry, acc) ==
  IF i = 0 THEN BitsOf(carry) \o acc
  ELSE timesFrom(bits, i - 1, k, (bits[i] * k + carry) \div 2,
                 <<(bits[i] * k + carry) % 2>> \o acc)

\* d * k in double arithmetic, for a positive integer k that a double
\* holds exactly: the exact product, rounded once
doubleTimes(d, k) == roundToDouble(timesFrom(d.bits, Len(d.bits), k, 0, <<>>), d.exp, FALSE)

\* llround(d) for a positive double, as the bits of the integer: to the
\* nearest integer, halves away from zero
llroundBits(d) ==
  LET n == Len(d.bits) + d.exp
  IN IF d.exp >= 0 THEN d.bits \o [k \in 1..d.exp |-> 0]
     ELSE IF n < 0 THEN <<>>
     ELSE IF d.bits[n + 1] = 1 THEN Increment(SubSeq(d.bits, 1, n))
     ELSE SubSeq(d.bits, 1, n)

\* (uint32_t) of the integer whose bits are given: its low 32 bits
uint32Of(bits) ==
  LET low == IF Len(bits) > 32 THEN SubSeq(bits, Len(bits) - 31, Len(bits))
             ELSE bits
  IN IF Len(low) = 32 /\ low[1] = 1
     THEN ValueOf(SubSeq(low, 2, 32)) - 2147483647 - 1
     ELSE ValueOf(low)

\* the whole seconds of a time and the tenths of a millisecond after them
Whole(atTime) == atTime.seconds + (atTime.tenths \div 10000)

Frac(atTime) == atTime.tenths % 10000

\* a < b for two times in seconds
Earlier(a, b) ==
  \/ Whole(a) < Whole(b)
  \/ Whole(a) = Whole(b) /\ Frac(a) < Frac(b)

\* (uint32_t)llround(atTime * 1000.0) (line 403) for a time that is not
\* negative, by the arithmetic of the doubles: the decimal is rounded to
\* a double, the product is rounded to a double, llround rounds it to an
\* integer and the conversion keeps its low 32 bits
llroundProduct(atTime) ==
  uint32Of(llroundBits(doubleTimes(doubleOf(Whole(atTime), Frac(atTime),
                                            10000), 1000)))

\* llround(atTime * 1000.0) for a time given as tenths of a millisecond
\* (seconds = 0 and a product below 2^31, or its negative).  The two
\* roundings to a double move the product by less than 2^-20 from
\* tenths / 10, so it is rounded as tenths / 10 is unless that lies on a
\* half, where the double product decides.
llroundTenths(tenths) ==
  IF tenths >= 0
  THEN IF tenths % 10 = 5 THEN llroundProduct([seconds |-> 0, tenths |-> tenths])
       ELSE (tenths + 5) \div 10
  ELSE IF (-tenths) % 10 = 5 THEN -llroundProduct([seconds |-> 0, tenths |-> -tenths])
       ELSE -((5 - tenths) \div 10)

\* (uint32_t)llround(atTime * 1000.0)
llround1000(atTime) ==
  IF atTime.seconds = 0 THEN llroundTenths(atTime.tenths)
  ELSE llroundProduct(atTime)

\* mutant: the time is not compared with UAMP_MAX_TIME
checkChange_NoMaxTime(c, atTime, newState) ==
  IF Earlier(atTime, NoTime) THEN ERROR_INVALID_CHANGE_TIME
  ELSE IF Below32(c.timeLimit, llround1000(atTime))
  THEN ERROR_INVALID_CHANGE_TIME
  ELSE IF newState < 0 \/ newState >= c.numStates
  THEN ERROR_INVALID_CHANGE_STATE
  ELSE 0

\* the argument checks of uampChangeState (lines 401-410): 0 or the error
checkChange(c, atTime, newState) ==
  IF Earlier(atTime, NoTime) \/ Earlier(UAMP_MAX_TIME, atTime)
  THEN ERROR_INVALID_CHANGE_TIME
  ELSE IF Below32(c.timeLimit, llround1000(atTime))
  THEN ERROR_INVALID_CHANGE_TIME
  ELSE IF newState < 0 \/ newState >= c.numStates
  THEN ERROR_INVALID_CHANGE_STATE
  ELSE 0

\* mutant: a UAMP session buffers the change like an MVISP session
dropsChange_Never(c) == FALSE

\* uampChangeState ignores the call (lines 397-398)
dropsChange(c) == c.numStates = 0

\* uampChangeState; writeErr: the return value of the socketWrite of the
\* flush, if the call makes one
changeBody(m, agentID, atTime, newState, writeErr) ==
  LET c == m.client
      m0 == [m EXCEPT !.call = [NewCall(c, "changeState", agentID) EXCEPT
                                  !.atTime = atTime, !.newState = newState],
                      !.wire = <<>>, !.io = <<>>, !.ret = 0]
      checked == checkChange(c, atTime, newState)
      added == addStateChange(m0, agentID, llround1000(atTime), newState,
                              writeErr)
      logged == [added EXCEPT
                   !.changed = Append(@, [agentID |-> agentID,
                                          time |-> llround1000(atTime),
                                          newState |-> newState])]
  IN IF dropsChange(c) THEN Return(m0, 0)
     ELSE IF checked # 0 THEN Return(m0, checked)
     ELSE IF added.ret # 0
     THEN Return([added EXCEPT !.poisoned = TRUE], added.ret)
     ELSE Return(logged, 0)

\* uampChangeState on a session where an earlier call failed, which the
\* library does not refuse; reloaded: see addStateChangePastEnd
changeAgainBody(m, agentID, atTime, newState, writeErr, reloaded) ==
  LET c == m.client
      m0 == [m EXCEPT !.call = [NewCall(c, "changeState", agentID) EXCEPT
                                  !.atTime = atTime, !.newState = newState],
                      !.wire = <<>>, !.io = <<>>, !.ret = 0]
      checked == checkChange(c, atTime, newState)
      added == addStateChangePastEnd(m0, agentID, llround1000(atTime),
                                     newState, writeErr, reloaded)
      logged == [added EXCEPT
                   !.changed = Append(@, [agentID |-> agentID,
                                          time |-> llround1000(atTime),
                                          newState |-> newState])]
  IN IF c.numChanges < UAMP_STATE_BUFFER_SIZE
     THEN changeBody(m, agentID, atTime, newState, writeErr)
     ELSE IF dropsChange(c) THEN Return(m0, 0)
     ELSE IF checked # 0 THEN Return(m0, checked)
     ELSE IF added.ret # 0 THEN Return(added, added.ret)
     ELSE Return(logged, 0)

\* mutant: the termination frame lacks its length field
terminationFrame_NoLength == <<W8(0)>>

\* the termination frame written by uampTerminate (lines 211-215)
terminationFrame == <<W8(0), W32(0)>>

\* uampTerminate; failAt: which socketWrite call of it fails (0: none)
terminateBody(m, failAt) ==
  LET c == m.client
      m0 == [m EXCEPT
               !.call = [NewCall(connectCleanup(c), "terminate", 0) EXCEPT
                           !.pre.fd = c.fd,
                           !.pre.numChanges = c.numChanges,
                           !.nth = IF m.call.op = "terminate" THEN 2 ELSE 1],
               !.wire = <<>>, !.io = <<>>,
               !.ret = 0]
      flushed == IF c.numChanges # 0
                 THEN flushStateChanges(
                        m0, IF failAt = 1 THEN ERROR_SOCKET_WRITE ELSE 0)
                 ELSE m0
      last == IF c.numChanges # 0 THEN 2 ELSE 1
      termination == terminationFrame
      written ==
        IF ~isConnected(c) THEN m0
        ELSE IF flushed.ret # 0 THEN flushed
        ELSE [flushed EXCEPT
                !.wire = @ \o termination,
                !.io = Append(@, IoFrame("write", 5, TypedBytes(1, 1, 0))),
                !.sent = @ \o termination,
                !.ret = IF failAt = last THEN ERROR_SOCKET_WRITE ELSE 0]
  IN Return([written EXCEPT !.client = terminateCleanup(written.client),
                            !.socketOpen = closeSocket(written),
                            !.accepted = <<>>, !.lastCommand = <<>>,
                            !.advances = <<>>],
            written.ret)

\* uampTerminate called by acceptFunc; failAt: which socketWrite call of it
\* fails (0: none).  Its return value goes to acceptFunc; mvispConnect goes
\* on with the client it leaves.
terminateInside(m, failAt) ==
  LET t == terminateBody(m, failAt)
  IN [t EXCEPT !.pc = m.pc, !.call = m.call, !.ret = m.ret,
               !.fill = m.fill,
               !.wire = m.wire \o t.wire, !.io = m.io \o t.io]

\* uampInitialize called between two calls on a client that a call has
\* used (on one that none has used it changes nothing): the logs kept of
\* the agents end with the pointer to their storage, and the socket, if
\* one is open, stays open
initializeBody(m) ==
  LET c == initialize(m.client)
  IN IF m.call.op = "none" THEN [m EXCEPT !.client = c]
     ELSE [m EXCEPT !.client = c,
                    !.call = [NewCall(c, "initialize", 0) EXCEPT
                                !.pre.fd = m.client.fd,
                                !.pre.numChanges = m.client.numChanges],
                    !.ret = 0, !.wire = <<>>, !.io = <<>>,
                    !.accepted = <<>>, !.lastCommand = <<>>,
                    !.advances = <<>>]

\* uampInitialize called by acceptFunc; mvispConnect goes on with the
\* client it leaves
initializeInside(m) == [m EXCEPT !.client = initialize(m.client)]

\* the inputs that a call reads: all of S when it gets as far as reading
\* them, and one of them, which it never looks at, when it does not
ReadFrom(reached, S) == IF reached THEN S ELSE {CHOOSE x \in S : TRUE}

\* performHandshake succeeds
Handshook(isUAMP, supportedFeatures, srv) ==
  performHandshake(client, isUAMP, supportedFeatures, srv).ret = 0

uampConnect ==
  /\ pc = "idle"
  /\ call.op = "none"
  /\ \E numAgents \in NumAgentsInputs, timeLimit \in TimeLimitInputs,
        seed \in SeedInputs, supportedFeatures \in FeatureInputs,
        sock \in SocketResults :
       \E srv \in ReadFrom(sock >= 0, ServerHandshakes) :
         \E response \in ReadFrom(Handshook(TRUE, supportedFeatures, srv),
                                  ServerResponses) :
           Set(connectBody(Machine, numAgents, timeLimit, seed,
                           supportedFeatures, sock, srv, response))

\* uampConnect for numAgents agents and timeLimit milliseconds, without
\* extra features, to a server that completes the handshake and approves
\* the request
uampConnectTo(numAgents, timeLimit) ==
  /\ pc = "idle"
  /\ call.op = "none"
  /\ \E srv \in {h \in ServerHandshakes : Handshook(TRUE, UAMP_NO_EXTRAS, h)} :
       Set(connectBody(Machine, numAgents, timeLimit, 42, UAMP_NO_EXTRAS,
                       SOCKET_FD, srv, 0))

\* the times a server that obeys the ordering rules may send to an agent
\* whose last reply had time last: 0 first, then a later time up to the
\* time limit, and the time limit again once it has sent it
ObeyingTimes(c, last) ==
  IF last < 0 THEN {0}
  ELSE IF last = c.timeLimit THEN {c.timeLimit}
  ELSE {t \in ServerTimes(c, last) : t > last /\ t <= c.timeLimit}

\* the blocked socket read of requestUpdates delivers the next reply of
\* such a server
ObeyingReplyArrives ==
  /\ pc = "fill"
  /\ \E t \in ObeyingTimes(client, LastSent(accepted[fill.onAgent])) : Set(ReplyStep(Machine, OnTrajectory(t)))

\* the session can be used: connected, and no call has failed on it
Usable == pc = "idle" /\ client.fd >= 0 /\ ~poisoned

\* the blocked socket read of requestUpdates delivers the next reply
ReplyArrives ==
  /\ pc = "fill"
  /\ \E w \in ServerReplies(client, LastSent(accepted[fill.onAgent])) : Set(ReplyStep(Machine, w))

\* the socketRead that the next receiveReply of requestUpdates makes fails
SocketReadFails ==
  /\ pc = "fill"
  /\ refillAt(Machine) >= 0
  /\ \E r \in {ERROR_SOCKET_DRY, ERROR_SOCKET_READ} :
       \E w \in ReadFrom(refillAt(Machine) > io[Len(io)].passed,
                         ServerReplies(client, LastSent(accepted[fill.onAgent]))) :
         Set(Unwind(ReplyCut(Machine, w), r))

uampAdvance(agentID) ==
  /\ Usable
  /\ agentID \in Agents(client)
  /\ Set(AdvanceBody([Machine EXCEPT
                          !.call = NewCall(client, "advance", agentID),
                          !.wire = <<>>, !.io = <<>>, !.ret = 0],
                     agentID))

\* uampAdvanceOldest, up to its return or to the first receiveReply of a
\* refill
advanceOldestBody(m) ==
  LET m0 == [m EXCEPT !.call = NewCall(m.client, "advanceOldest", 0),
                      !.call.oldest = m.client.smallestCurrentTime,
                      !.wire = <<>>, !.io = <<>>, !.ret = 0]
  IN IF m.client.smallestCurrentTime = m.client.timeLimit
     THEN Return(m0, ERROR_NO_MORE_DATA)
     ELSE OldestLoop(m0, 0)

uampAdvanceOldest ==
  /\ Usable
  /\ Set(advanceOldestBody(Machine))

uampTerminate ==
  /\ pc = "idle"
  /\ \E failAt \in TerminateFailures(client) :
       Set(terminateBody(Machine, failAt))

uampInitialize ==
  /\ pc = "idle"
  /\ Set(initializeBody(Machine))

\* a socketWrite of requestUpdates fails: the call is suspended at its
\* first receiveReply, and no reply has been read; the beginRead that
\* follows the write is not reached
SocketWriteFails ==
  /\ pc = "fill"
  /\ fill.onRequest = 0
  /\ fill.i = 0
  /\ \E k \in 1..writeCalls(requestWriteTotal(fill.totalRequests)) :
       Set(Unwind(RequestCut(Machine, k), ERROR_SOCKET_WRITE))

mvispConnect ==
  /\ pc = "idle"
  /\ call.op = "none"
  /\ \E names \in StateNameInputs, acceptFunc \in AcceptInputs,
        supportedFeatures \in FeatureInputs, sock \in SocketResults :
       \E srv \in ReadFrom(sock >= 0, ServerHandshakes) :
         \E offer \in ReadFrom(Handshook(FALSE, supportedFeatures, srv),
                               ServerOffers) :
           Set(mvispBody(Machine, names.stateNames, names.numStates,
                         acceptFunc, supportedFeatures, sock, srv, offer))

\* the specification of a server whose time limit is the largest a
\* uint32_t holds
LongestOffers ==
  {[high |-> 0, numAgents |-> 1, timeLimit |-> UINT32_MAX,
    io |-> [at |-> 0, err |-> 0]]}

\* mvispConnect with two states and no acceptFunc, to a server that
\* completes the handshake and offers such a specification
mvispConnectLongest ==
  /\ pc = "idle"
  /\ call.op = "none"
  /\ \E srv \in {h \in ServerHandshakes : Handshook(FALSE, UAMP_NO_EXTRAS, h)} :
       \E offer \in LongestOffers :
         Set(mvispBody(Machine, <<<<"a">>, <<"b", "c">>>>, 2, "none",
                       UAMP_NO_EXTRAS, SOCKET_FD, srv, offer))

\* acceptFunc returns what it was chosen to return
acceptFuncReturns ==
  /\ pc = "accept"
  /\ Set(mvispAnswer(Machine))

\* acceptFunc calls uampTerminate on the client that is being connected
uampTerminateInside ==
  /\ pc = "accept"
  /\ client.fd >= 0
  /\ \E failAt \in TerminateFailures(client) :
       Set(terminateInside(Machine, failAt))

\* acceptFunc calls uampInitialize on the client that is being connected
uampInitializeInside ==
  /\ pc = "accept"
  /\ Set(initializeInside(Machine))

\* uampChangeState on a connected session; an MVISP session passes the id
\* of one of its agents (the ASSERT of line 406)
uampChangeState ==
  /\ Usable
  /\ Len(changed) <= MaxChanges
  /\ \E agentID \in ChangeAgents(client, Len(changed)),
        atTime \in ChangeTimes(client, Len(changed)),
        newState \in ChangeStates(client, Len(changed)),
        writeErr \in FlushResults(client) :
       Set(changeBody(Machine, agentID, atTime, newState, writeErr))

\* uampChangeState called again on an MVISP session after a call on it
\* failed
uampChangeStateAgain ==
  /\ pc = "idle"
  /\ client.fd >= 0
  /\ poisoned
  /\ client.numStates # 0
  /\ client.numChanges <= MaxChanges
  /\ Len(changed) <= MaxChanges
  /\ \E agentID \in ChangeAgents(client, Len(changed)),
        atTime \in ChangeTimes(client, Len(changed)),
        newState \in ChangeStates(client, Len(changed)),
        writeErr \in FlushResults(client), reloaded \in BOOLEAN :
       Set(changeAgainBody(Machine, agentID, atTime, newState, writeErr,
                           reloaded))

Next ==
  \/ uampConnect
  \/ ReplyArrives
  \/ SocketReadFails
  \/ SocketWriteFails
  \/ \E agentID \in Agents(client) : uampAdvance(agentID)
  \/ uampAdvanceOldest
  \/ uampTerminate
  \/ uampInitialize

Spec == Init /\ [][Next]_vars

\* UAMP sessions advanced by both calls in any interleaving, on which no
\* socket call fails after the connect and which are not terminated
NextAdvance ==
  \/ uampConnect
  \/ ReplyArrives
  \/ \E agentID \in Agents(client) : uampAdvance(agentID)
  \/ uampAdvanceOldest

SpecAdvance == Init /\ [][NextAdvance]_vars

\* a session whose agents are advanced through uampAdvanceOldest only
NextOldest ==
  \/ uampConnect
  \/ ReplyArrives
  \/ SocketReadFails
  \/ SocketWriteFails
  \/ uampAdvanceOldest
  \/ uampTerminate
  \/ uampInitialize

SpecOldest == Init /\ [][NextOldest]_vars

\* the two connect calls with every failure of theirs, and uampTerminate
NextConnect ==
  \/ uampConnect
  \/ mvispConnect
  \/ acceptFuncReturns
  \/ uampTerminateInside
  \/ ReplyArrives
  \/ SocketReadFails
  \/ SocketWriteFails
  \/ uampTerminate
  \/ uampInitialize
  \/ uampInitializeInside

SpecConnect == Init /\ [][NextConnect]_vars

\* MVISP sessions with state changes, advanced through uampAdvanceOldest
NextMvisp ==
  \/ mvispConnect
  \/ acceptFuncReturns
  \/ uampTerminateInside
  \/ ReplyArrives
  \/ SocketReadFails
  \/ SocketWriteFails
  \/ uampAdvanceOldest
  \/ uampChangeState
  \/ uampTerminate
  \/ uampInitialize
  \/ uampInitializeInside

SpecMvisp == Init /\ [][NextMvisp]_vars

\* the same sessions, and those whose time limit is UINT32_MAX
NextLongest ==
  \/ mvispConnect
  \/ mvispConnectLongest
  \/ acceptFuncReturns
  \/ uampTerminateInside
  \/ ReplyArrives
  \/ SocketReadFails
  \/ SocketWriteFails
  \/ uampAdvanceOldest
  \/ uampChangeState
  \/ uampTerminate
  \/ uampInitialize
  \/ uampInitializeInside

SpecLongest == Init /\ [][NextLongest]_vars

\* the agents of the sessions in which the sum of fillUpdateQueues wraps
WordAgents == {2, 3}

\* UAMP sessions of a library whose uint32_t is a reduced word
NextWord ==
  \/ \E numAgents \in WordAgents :
       uampConnectTo(numAgents, UAMP_UPDATE_QUEUE_SIZE)
  \/ ReplyArrives
  \/ uampAdvanceOldest

SpecWord == InitWord /\ [][NextWord]_vars

\* the agents and the time limits of the simulations offered to runClient
LoopAgents == {1, 2}

LoopTimeLimits == {1, MaxTimeLimit}

\* the features runClient supports (epidemic.c, lines 199 and 204)
EpidemicFeatures == UAMP_SUPPORTS_3D \cup UAMP_SUPPORTS_ADD_REMOVE

\* verifyAgents (epidemic.c, lines 253-260), the acceptFunc of runClient
verifyAgents(numAgents) ==
  LET totalRequired == INITIAL_AGENTS + IMMUNE_AGENTS
  IN IF totalRequired < INITIAL_AGENTS \/ totalRequired < IMMUNE_AGENTS
     THEN -1
     ELSE IF totalRequired > numAgents THEN -1
     ELSE 0

\* runClient of the MVISP client (epidemic.c with the option -m), from
\* its call of mvispConnect (lines 201-204) to the assignment of
\* infectedAgents (line 222), which is not read before; its two
\* allocations (lines 206-209) succeed.  The server
\* completes the handshake and offers a simulation; mvispConnect stores the
\* number of its agents in NUM_AGENTS, read below as client.numAgents.
\* (The UAMP client of the option -u runs the same loop with the time limit
\* UAMP_MAX_TIME.)
runClient ==
  /\ pc = "idle"
  /\ call.op = "none"
  /\ \E numAgents \in LoopAgents, timeLimit \in LoopTimeLimits :
       \E srv \in {h \in ServerHandshakes : Handshook(FALSE, EpidemicFeatures, h)} :
         LET offer == [high |-> 0, numAgents |-> numAgents,
                       timeLimit |-> timeLimit, io |-> [at |-> 0, err |-> 0]]
             acceptFunc == IF verifyAgents(numAgents) = 0 THEN "accepts"
                           ELSE "denies"
         IN Set([mvispBody(Machine, STATE_NAMES, Len(STATE_NAMES),
                           acceptFunc, EpidemicFeatures, SOCKET_FD, srv,
                           offer)
                   EXCEPT !.infectedAgents = INITIAL_AGENTS])

\* runClient is at the test of its while loop (line 228): mvispConnect or
\* the uampAdvanceOldest of the turn before has returned
AtLoopTest ==
  /\ pc = "idle"
  /\ client.fd >= 0
  /\ call.op \in {"mvispConnect", "advanceOldest"}

\* the test of the while loop (line 228): not everyone is infected
LoopTest == infectedAgents + IMMUNE_AGENTS < client.numAgents

\* the values processMovements (line 233) may leave in infectedAgents: it
\* counts the agents that the commands bring into the range of a
\* contagious agent, which the movements the server simulates decide
InfectedAfter == infectedAgents..(client.numAgents - IMMUNE_AGENTS)

\* the return value of the calls of uampIntersectCommand (lines 229-232):
\* it depends on the cursors only, so the calls of a turn return the same
IntersectResult == uampIntersectCommand(client, 0).ret

\* the call before returned an error, the test of the while fails or a
\* call of uampIntersectCommand returns an error: runClient leaves the
\* loop without a further call in it
LoopOver == ret # 0 \/ ~LoopTest \/ IntersectResult # 0

\* one turn of the while loop of runClient (lines 228-238) in which
\* uampIsAnyMore returns 1: the commands are intersected, processMovements
\* counts the infected and uampAdvanceOldest is called, up to its return or
\* to the first receiveReply of a refill
AdvanceWhileAnyMore ==
  /\ AtLoopTest
  /\ ~LoopOver
  /\ uampIsAnyMore(client) = 1
  /\ \E k \in InfectedAfter :
       Set([advanceOldestBody(Machine) EXCEPT !.infectedAgents = k])

\* runClient leaves its while loop: by the test of the while, by an error
\* or, after processMovements, by the break of line 235 when uampIsAnyMore
\* returns 0.  What follows the loop (finalizeStates and uampTerminate) is
\* not part of this action.
LeaveLoop ==
  /\ AtLoopTest
  /\ IF LoopOver
     THEN Set([Machine EXCEPT !.pc = "left"])
     ELSE /\ uampIsAnyMore(client) = 0
          /\ \E k \in InfectedAfter :
               Set([Machine EXCEPT !.pc = "left", !.infectedAgents = k])

\* the MVISP client of epidemic.c up to the end of its loop, against a
\* server that obeys the ordering rules, with no socket failure
NextLoop ==
  \/ runClient
  \/ acceptFuncReturns
  \/ ObeyingReplyArrives
  \/ AdvanceWhileAnyMore
  \/ LeaveLoop

\* the call is blocked in the socket read of requestUpdates: the states in
\* which ObeyingReplyArrives is enabled
ReplyAwaited == pc = "fill"

\* mvispConnect has called verifyAgents: the states in which
\* acceptFuncReturns is enabled
CallbackRuns == pc = "accept"

\* the socket read returns once the server has replied, verifyAgents
\* returns, and runClient goes on from the test of its while once the call
\* before has returned, into the next turn or out of the loop: weak
\* fairness of the three, WF_vars(A), written out as
\* []<>~ENABLED <<A>>_vars \/ []<><<A>>_vars with the guard of A for
\* ENABLED <<A>>_vars (each action changes pc or call whenever its guard
\* holds)
SpecLoop ==
  /\ Init
  /\ [][NextLoop]_vars
  /\ ([]<>~ReplyAwaited \/ []<><<ObeyingReplyArrives>>_vars)
  /\ ([]<>~CallbackRuns \/ []<><<acceptFuncReturns>>_vars)
  /\ ([]<>~AtLoopTest \/ []<><<AdvanceWhileAnyMore \/ LeaveLoop>>_vars)

\* MVISP sessions whose client goes on calling uampChangeState after a
\* flush has failed
NextReuse ==
  \/ mvispConnect
  \/ acceptFuncReturns
  \/ uampTerminateInside
  \/ ReplyArrives
  \/ uampChangeState
  \/ uampChangeStateAgain
  \/ uampInitializeInside

SpecReuse == Init /\ [][NextReuse]_vars

\* UAMP sessions on which uampChangeState is called
NextChange ==
  \/ uampConnect
  \/ ReplyArrives
  \/ uampAdvanceOldest
  \/ uampChangeState
  \/ uampTerminate
  \/ uampInitialize

SpecChange == Init /\ [][NextChange]_vars

\* UAMP and MVISP sessions advanced by both calls; the state changes are
\* those of an MVISP client
NextSession ==
  \/ uampConnect
  \/ mvispConnect
  \/ acceptFuncReturns
  \/ uampTerminateInside
  \/ ReplyArrives
  \/ SocketReadFails
  \/ SocketWriteFails
  \/ \E agentID \in Agents(client) : uampAdvance(agentID)
  \/ uampAdvanceOldest
  \/ client.numStates # 0 /\ uampChangeState
  \/ uampTerminate
  \/ uampInitialize
  \/ uampInitializeInside

SpecSession == Init /\ [][NextSession]_vars

\* the totals given to beginRead and beginWrite
FrameTotals == {9, UAMP_IO_BUFFER_SIZE, MaxTotal}

\* the lengths given to socketReadRaw and socketWriteRaw
RawLengths == {3, 1024, 2050}

\* the bytes of the buffer are those of an earlier frame
Relabel(buf) == [buf EXCEPT !.buffer = <<>>]

\* beginRead and beginWrite make no test: a frame is begun at any moment,
\* also in the middle of the frame before (uampTerminate after a reply that
\* failed its verification)
beginRead ==
  /\ \E total \in FrameTotals :
       /\ commBuf' = Relabel(beginFrame(commBuf, total))
       /\ traffic' = [NoSocket EXCEPT !.op = "read"]
  /\ UNCHANGED session

beginWrite ==
  /\ \E total \in FrameTotals :
       /\ commBuf' = Relabel(beginFrame(commBuf, total))
       /\ traffic' = [NoSocket EXCEPT !.op = "write"]
  /\ UNCHANGED session

\* what a socket call of size bytes that returns res may have moved before
\* it failed: nothing, one byte, or all but the last byte
MovedBefore(res, size) ==
  IF res = 0 THEN {0} ELSE {0, 1, size - 1} \cap (0..(size - 1))

\* a typed call of length bytes makes these socket calls at most: one refill for
\* each UAMP_IO_BUFFER_SIZE bytes or part of it, one flush when the buffer
\* is full and one when the total is reached
SocketCalls(length) ==
  1..(1 + (length + UAMP_IO_BUFFER_SIZE - 1) \div UAMP_IO_BUFFER_SIZE)

\* which socket call of a typed call fails, with which result: none, or
\* the nth with an error of Errors
Failures(length, Errors) ==
  {[nth |-> 1, res |-> 0]} \cup [nth : SocketCalls(length), res : Errors]

\* the size of the socket call that failed in r, should one have
SizeOfFailed(r) ==
  IF r.sock.ret = 0 THEN 1 ELSE r.sock.calls[Len(r.sock.calls)].size

\* socketRead8 and socketReadRaw hand over what socketReadRaw copied;
\* socketRead32 (word) goes through its local
typedRead(buf, sk, length, word, nth, res, got) ==
  IF word THEN read32(buf, sk, nth, res, got)
  ELSE socketReadRaw(buf, sk, length, nth, res, got)

\* a typed read of length bytes, which the ASSERT of lines 66-69 lets
\* through, by a caller that leaves the frame when a typed call fails, as
\* ERROR_CHECK does; each socketRead it makes returns 0 or fails
TypedRead(length, word) ==
  /\ traffic.op = "read"
  /\ traffic.ret = 0
  /\ commBuf.passed + length <= commBuf.total
  /\ \E f \in Failures(length, {ERROR_SOCKET_DRY, ERROR_SOCKET_READ}) :
       LET r0 == typedRead(commBuf, traffic, length, word, f.nth, f.res, 0)
       IN /\ r0.sock.ret = f.res
          /\ \E got \in MovedBefore(f.res, SizeOfFailed(r0)) :
               LET r == typedRead(commBuf, traffic, length, word, f.nth,
                                  f.res, got)
               IN commBuf' = r.buf /\ traffic' = r.sock
  /\ UNCHANGED session

socketRead8 == TypedRead(1, FALSE)

socketRead32 == TypedRead(4, TRUE)

socketReadRawCall == \E length \in RawLengths : TypedRead(length, FALSE)

\* a typed write of length bytes, which the ASSERT of lines 148-151 lets
\* through, by a caller that leaves the frame when a typed call fails; each
\* socketWrite it makes returns 0 or fails
TypedWrite(length) ==
  /\ traffic.op = "write"
  /\ traffic.ret = 0
  /\ commBuf.passed + length <= commBuf.total
  /\ \E f \in Failures(length, {ERROR_SOCKET_WRITE}) :
       LET r0 == socketWriteRaw(commBuf, traffic, length, f.nth, f.res, 0)
       IN /\ r0.sock.ret = f.res
          /\ \E got \in MovedBefore(f.res, SizeOfFailed(r0)) :
               LET r == socketWriteRaw(commBuf, traffic, length, f.nth,
                                       f.res, got)
               IN commBuf' = r.buf /\ traffic' = r.sock
  /\ UNCHANGED session

socketWrite8 == TypedWrite(1)

socketWrite32 == TypedWrite(4)

socketWriteRawCall == \E length \in RawLengths : TypedWrite(length)

\* ioBuffer.c driven by any caller that keeps to its totals
NextBuffer ==
  \/ beginRead
  \/ socketRead8
  \/ socketRead32
  \/ socketReadRawCall
  \/ beginWrite
  \/ socketWrite8
  \/ socketWrite32
  \/ socketWriteRawCall

SpecBuffer == Init /\ [][NextBuffer]_vars

(* ============================== claims ================================= *)

\* p < q for rationals <<numerator, denominator>> with positive denominators
RatLess(p, q) == p[1] * q[2] < q[1] * p[2]

NeverAdvanced(a) == lastCommand[a] = <<>>

\* C1: for every agent, the replies accepted into its queue start at time 0,
\* then have strictly increasing times that do not exceed the time limit,
\* up to the first one at the time limit; every reply accepted after that
\* one is equal to it in time, x, y, z and present.
C1_AcceptedRepliesOrdered ==
  \A a \in DOMAIN accepted :
    LET log == accepted[a]
        T == client.timeLimit
    IN /\ Len(log) > 0 => log[1].time = 0
       /\ \A i \in 2..Len(log) :
            LET finals == {j \in 1..(i - 1) : log[j].time = T}
            IN IF finals = {}
               THEN log[i - 1].time < log[i].time /\ log[i].time <= T
               ELSE \A j \in finals :
                      (\A k \in finals : j <= k) => log[i] = log[j]

\* an agent whose ring has wrapped has accepted its final update and a copy
C1_Witness ==
  \E a \in DOMAIN accepted :
    /\ Len(accepted[a]) > UAMP_UPDATE_QUEUE_SIZE + 1
    /\ accepted[a][Len(accepted[a])].time = client.timeLimit
    /\ accepted[a][Len(accepted[a]) - 1].time = client.timeLimit

\* C2: on a usable session, the current command of an agent that has not
\* advanced has fromTime = toTime = 0 and equal from and to positions; the
\* current command of an agent that has advanced has toTime > fromTime, and
\* its from time and position are the to time and position of the command
\* that was current before the agent's last advance.
C2_CommandsChain ==
  Usable =>
    \A a \in Agents(client) :
      LET cmd == uampCurrentCommand(client, a)
      IN IF NeverAdvanced(a)
         THEN /\ cmd.fromTime = Div1000(0) /\ cmd.toTime = Div1000(0)
              /\ cmd.fromX = cmd.toX /\ cmd.fromY = cmd.toY
              /\ cmd.fromZ = cmd.toZ
         ELSE LET before == lastCommand[a][1]
              IN /\ RatLess(cmd.fromTime, cmd.toTime)
                 /\ cmd.fromTime = before.toTime
                 /\ cmd.fromX = before.toX /\ cmd.fromY = before.toY
                 /\ cmd.fromZ = before.toZ

\* an agent has advanced into a refilled slot at the start of the ring, its
\* previous update being in the last slot
C2_Witness ==
  /\ Usable
  /\ \E a \in Agents(client) :
       /\ ~NeverAdvanced(a)
       /\ client.agents[a].currentIndex = 0
       /\ Len(accepted[a]) > UAMP_UPDATE_QUEUE_SIZE

\* C3: on a usable session (after a successful connect and after every
\* successful uampAdvance or uampAdvanceOldest), smallestCurrentTime is the
\* minimum over all agents of the time of the agent's current update.
C3_SmallestIsMinCurrent ==
  Usable =>
    /\ \A a \in Agents(client) :
         client.smallestCurrentTime <= getCurrentUpdate(client, a).time
    /\ \E a \in Agents(client) :
         client.smallestCurrentTime = getCurrentUpdate(client, a).time

\* after an individual advance the agents are at different times, the
\* smallest not 0
C3_Witness ==
  /\ Usable
  /\ call.op = "advance"
  /\ client.smallestCurrentTime > 0
  /\ \E a, b \in Agents(client) :
       getCurrentUpdate(client, a).time < getCurrentUpdate(client, b).time

\* C4: on a usable session, largestLastTime is the maximum over all agents
\* of the time of the agent's previous update (0 for an agent that has not
\* advanced).
C4_LargestIsMaxPrevious ==
  Usable =>
    /\ \A a \in Agents(client) :
         /\ getPreviousUpdate(client, a).time <= client.largestLastTime
         /\ NeverAdvanced(a) => getPreviousUpdate(client, a).time = 0
    /\ \E a \in Agents(client) :
         getPreviousUpdate(client, a).time = client.largestLastTime

\* one agent has advanced twice or more, another has not advanced
C4_Witness ==
  /\ Usable
  /\ client.largestLastTime > 0
  /\ \E a \in Agents(client) : NeverAdvanced(a)

\* C5: both cursors are 0 after connect, and on a connected session no step
\* decreases largestLastTime or smallestCurrentTime.
C5_CursorsNeverDecrease ==
  /\ [](call.op = "connect" /\ client.fd >= 0 =>
          client.largestLastTime = 0 /\ client.smallestCurrentTime = 0)
  /\ [][client.fd >= 0 =>
          /\ client'.largestLastTime >= client.largestLastTime
          /\ client'.smallestCurrentTime >= client.smallestCurrentTime]_vars

\* both cursors have moved, largestLastTime past smallestCurrentTime
C5_Witness ==
  /\ Usable
  /\ 0 < client.smallestCurrentTime
  /\ client.smallestCurrentTime < client.largestLastTime

\* C6: on a usable session uampIntersectCommand succeeds exactly when
\* largestLastTime <= smallestCurrentTime, and then, for every agent (one
\* whose current update has time 0 included), the returned fromTime is
\* largestLastTime / 1000 and the returned toTime is
\* smallestCurrentTime / 1000.
C6_IntersectTimesAreCursors ==
  Usable =>
    \A a \in Agents(client) :
      LET r == uampIntersectCommand(client, a)
      IN /\ (r.ret = 0) <=>
              (client.largestLastTime <= client.smallestCurrentTime)
         /\ r.ret # 0 => r.ret = ERROR_NO_INTERSECTION
         /\ r.ret = 0 =>
              /\ r.command.fromTime = Div1000(client.largestLastTime)
              /\ r.command.toTime = Div1000(client.smallestCurrentTime)

\* an agent's command is clipped on both sides: its own period is strictly
\* wider than [largestLastTime, smallestCurrentTime]
C6_Witness ==
  /\ Usable
  /\ \E a \in Agents(client) :
       /\ uampIntersectCommand(client, a).ret = 0
       /\ getPreviousUpdate(client, a).time < client.largestLastTime
       /\ client.smallestCurrentTime < getCurrentUpdate(client, a).time

\* C7: on a usable session, if uampIntersectCommand succeeds for two agents
\* (no advance in between), the two commands have the same fromTime and the
\* same toTime, as timeTogether asserts.
C7_IntersectCommandsAgree ==
  Usable =>
    \A a, b \in Agents(client) :
      LET ra == uampIntersectCommand(client, a)
          rb == uampIntersectCommand(client, b)
      IN ra.ret = 0 /\ rb.ret = 0 =>
           /\ ra.command.fromTime = rb.command.fromTime
           /\ ra.command.toTime = rb.command.toTime

\* two agents whose own commands differ in both times get intersection
\* commands
C7_Witness ==
  /\ Usable
  /\ \E a, b \in Agents(client) :
       /\ uampIntersectCommand(client, a).ret = 0
       /\ uampIntersectCommand(client, b).ret = 0
       /\ getPreviousUpdate(client, a).time
            < getPreviousUpdate(client, b).time
       /\ getCurrentUpdate(client, a).time
            # getCurrentUpdate(client, b).time

\* C8 (SpecOldest): in a session whose agents are advanced through
\* uampAdvanceOldest only, largestLastTime <= smallestCurrentTime after
\* connect and after every call, and uampIntersectCommand returns
\* NoIntersection for no agent.
C8_OldestOnlyIntersects ==
  Usable =>
    /\ client.largestLastTime <= client.smallestCurrentTime
    /\ \A a \in Agents(client) : uampIntersectCommand(client, a).ret = 0

\* after a successful uampAdvanceOldest the agents are at different times
C8_Witness ==
  /\ Usable
  /\ call.op = "advanceOldest"
  /\ ret = 0
  /\ client.largestLastTime > 0
  /\ \E a, b \in Agents(client) :
       getCurrentUpdate(client, a).time < getCurrentUpdate(client, b).time

\* C9: uampAdvanceOldest returns NoMoreData exactly when smallestCurrentTime
\* was the time limit on entry, and then advances nobody and does no I/O;
\* when it returns 0 it has advanced once each agent whose current time was
\* smallestCurrentTime on entry and no other agent, and smallestCurrentTime
\* is greater than on entry.
C9_AdvanceOldestAdvancesOldest ==
  (pc = "idle" /\ call.op = "advanceOldest") =>
    LET pre == call.pre
        due(a) == IF pre.time[a] = pre.smallestCurrentTime THEN 1 ELSE 0
    IN /\ (ret = ERROR_NO_MORE_DATA) <=>
            (pre.smallestCurrentTime = client.timeLimit)
       /\ ret = ERROR_NO_MORE_DATA =>
            /\ wire = <<>> /\ call.replies = 0
            /\ \A a \in Agents(client) :
                 /\ call.advanced[a] = 0
                 /\ client.agents[a].currentIndex = pre.currentIndex[a]
       /\ ret = 0 =>
            /\ \A a \in Agents(client) :
                 /\ call.advanced[a] = due(a)
                 /\ client.agents[a].currentIndex =
                      (pre.currentIndex[a] + due(a)) % UAMP_UPDATE_QUEUE_SIZE
            /\ client.smallestCurrentTime > pre.smallestCurrentTime

\* a successful uampAdvanceOldest advanced one agent and not another, and
\* refilled the queues on the way
C9_Witness ==
  /\ pc = "idle"
  /\ call.op = "advanceOldest"
  /\ ret = 0
  /\ call.replies > 0
  /\ \E a, b \in Agents(client) :
       call.advanced[a] = 1 /\ call.advanced[b] = 0

\* C10: uampAdvance(agent) returns NoMoreData exactly when uampIsMore(agent)
\* returned 0 on entry (the agent's current time is not less than the time
\* limit); it then does no socket I/O and leaves the agent's currentIndex,
\* aliveInQueue and recvIndex and both cursors as they were.
C10_AdvanceNoMoreData ==
  (pc = "idle" /\ call.op = "advance") =>
    LET pre == call.pre
        a == call.agentID
    IN /\ (ret = ERROR_NO_MORE_DATA) <=> (pre.isMore[a] = 0)
       /\ (pre.isMore[a] = 0) <=> ~(pre.time[a] < client.timeLimit)
       /\ ret = ERROR_NO_MORE_DATA =>
            /\ wire = <<>> /\ call.replies = 0
            /\ client.agents[a].currentIndex = pre.currentIndex[a]
            /\ client.agents[a].aliveInQueue = pre.aliveInQueue[a]
            /\ client.agents[a].recvIndex = pre.recvIndex[a]
            /\ client.largestLastTime = pre.largestLastTime
            /\ client.smallestCurrentTime = pre.smallestCurrentTime

\* uampAdvance was refused for an agent at the time limit while another
\* agent still has data
C10_Witness ==
  /\ pc = "idle"
  /\ call.op = "advance"
  /\ ret = ERROR_NO_MORE_DATA
  /\ uampIsAnyMore(client) = 1

\* C11: uampTerminate is idempotent: called after uampInitialize alone or
\* after another uampTerminate, whatever that one returned, it returns 0,
\* writes nothing to any socket, closes nothing, and leaves the session as
\* it was, with fd = -1 and the agents released.  The uampInitialize is
\* that of a client no call has used yet ("none") or one made later, on a
\* client in any state; a socket that was open when it was made stays open.
C11_TerminateIdempotent ==
  [][(pc = "idle" /\ call.op \in {"none", "initialize", "terminate"}
        /\ call'.op = "terminate")
     => /\ ret' = 0
        /\ wire' = <<>>
        /\ io' = <<>>
        /\ sent' = sent
        /\ socketOpen' = socketOpen
        /\ client' = client
        /\ client.fd = -1 /\ client.agents = <<>>]_vars

\* a second uampTerminate has returned on a session whose first
\* uampTerminate failed to write its buffered state changes
C11_Witness ==
  /\ pc = "idle"
  /\ call.op = "terminate"
  /\ call.nth = 2
  /\ ret = 0
  /\ client.numChanges # 0
  /\ sent # <<>>

\* acceptFunc called uampTerminate on the client it was asked about: the
\* termination frame is written and the descriptor is -1, so that the write
\* mvispConnect makes next fails
CallbackTerminated == call.op = "mvispConnect" /\ sent # <<>>

\* acceptFunc called uampInitialize on the client it was asked about: the
\* descriptor is -1 and the socket it named is open, so that the write
\* mvispConnect makes next fails and nothing closes the socket
CallbackInitialized ==
  call.op = "mvispConnect" /\ sent = <<>> /\ client.fd < 0 /\ socketOpen

\* C12: every failing return of uampConnect or mvispConnect, at whatever
\* step it fails (arguments, socket creation, handshake, specification
\* negotiation, initial queue fill), leaves the socket closed, fd = -1, the
\* agents released and no state change buffered, and a following
\* uampTerminate sends no bytes and returns 0.  Operations on one session
\* are strictly sequential and never re-entered: the statement is about
\* the connects whose acceptFunc left the client alone.  A callback that
\* called uampInitialize on the client (CallbackInitialized) is outside
\* it; the descriptor was forgotten by that call, not by the isErr arm.
C12_FailedConnectReleases ==
  /\ [](pc = "idle" /\ InConnect(Machine) /\ ret # 0
          /\ ~CallbackInitialized
          => /\ ~socketOpen
             /\ client.fd = -1
             /\ client.agents = <<>>
             /\ client.numChanges = 0 /\ client.changes = <<>>)
  /\ [][(pc = "idle" /\ InConnect(Machine) /\ ret # 0
           /\ call'.op = "terminate")
        => ret' = 0 /\ wire' = <<>> /\ sent' = sent]_vars

\* mvispConnect has failed in its initial queue fill, after replies of the
\* server were stored
C12_Witness ==
  /\ pc = "idle"
  /\ call.op = "mvispConnect"
  /\ ret # 0
  /\ call.replies > 0
  /\ ~socketOpen

\* C13: after any error returned by uampAdvance, uampAdvanceOldest or
\* uampChangeState on a connected session, a following uampTerminate
\* finishes with the socket closed, fd = -1 and the agents released,
\* whatever it returns itself.
C13_TerminateAfterError ==
  [][(/\ pc = "idle"
      /\ call.op \in {"advance", "advanceOldest", "changeState"}
      /\ ret # 0
      /\ call'.op = "terminate")
     => /\ pc' = "idle"
        /\ ~socketOpen'
        /\ client'.fd = -1
        /\ client'.agents = <<>>]_vars

\* uampTerminate has returned an error of its own on a connected session
\* on which an earlier call had failed
C13_Witness ==
  /\ pc = "idle"
  /\ call.op = "terminate"
  /\ poisoned
  /\ call.pre.fd >= 0
  /\ ret # 0
  /\ ~socketOpen

\* uampTerminate has returned on a session that was connected when it was
\* called
TerminatedConnected ==
  pc = "idle" /\ call.op = "terminate" /\ call.pre.fd >= 0

\* the writes of the returned uampTerminate begin with one state-change
\* frame of the changes buffered on entry exactly when there were any
FlushedIffBuffered ==
  LET n == call.pre.numChanges
  IN /\ (n # 0) <=> (wire # <<>> /\ wire[1] = W8(2))
     /\ n # 0 => Len(wire) >= 2 + 3 * n /\ wire[2] = W32(n)

\* the writes of the returned uampTerminate after its state-change frame
AfterFlush ==
  LET n == call.pre.numChanges
  IN IF n = 0 THEN wire ELSE SubSeq(wire, 3 + 3 * n, Len(wire))

\* nothing is written once uampTerminate has returned
NothingAfterTerminate ==
  [][(pc = "idle" /\ call.op = "terminate")
     => sent' = sent /\ wire' = <<>> /\ pc' = "idle"]_vars

\* the statement of C14 as given: the termination frame follows in every
\* case
C14_TerminationAlwaysWritten ==
  /\ [](TerminatedConnected
          => /\ FlushedIffBuffered
             /\ AfterFlush = <<W8(0), W32(0)>>
             /\ ~socketOpen)
  /\ NothingAfterTerminate

\* C14 (amended): on a connected session uampTerminate writes, in this
\* order, one state-change frame (opcode 0x02) if and only if at least one
\* state change is buffered and then, unless the write of that frame failed,
\* the termination frame (u8 0x00, u32 0); when that write failed it writes
\* no termination frame.  It then closes the socket, and what it wrote is
\* the last thing the client writes on the connection: no state-change
\* frame or location request follows.
C14_TerminateWrites ==
  /\ [](TerminatedConnected
          => /\ FlushedIffBuffered
             /\ AfterFlush = IF client.numChanges # 0 THEN <<>>
                             ELSE <<W8(0), W32(0)>>
             /\ client.numChanges # 0
                  => ret = ERROR_SOCKET_WRITE /\ call.pre.numChanges # 0
             /\ ~socketOpen /\ client.fd = -1)
  /\ NothingAfterTerminate

\* uampTerminate has succeeded on a connected session with buffered state
\* changes: it wrote their frame and the termination frame
C14_Witness ==
  /\ TerminatedConnected
  /\ call.pre.numChanges > 1
  /\ ret = 0
  /\ Len(wire) = 4 + 3 * call.pre.numChanges
  /\ sent # wire

\* the state changes carried by the frames of s from position i on, in the
\* order they are in; a frame is W8(2), W32(count) and three W32 for each
\* of its count entries; the termination frame may only end s.  Anything
\* else makes the result end with an entry of -1, which no change is.
RECURSIVE EntriesFrom(_, _)
EntriesFrom(s, i) ==
  IF i > Len(s) THEN <<>>
  ELSE IF SubSeq(s, i, Len(s)) = <<W8(0), W32(0)>> THEN <<>>
  ELSE IF /\ s[i] = W8(2)
          /\ i + 1 <= Len(s)
          /\ s[i + 1][1] = 32
          /\ i + 1 + 3 * s[i + 1][2] <= Len(s)
          /\ \A k \in (i + 2)..(i + 1 + 3 * s[i + 1][2]) : s[k][1] = 32
  THEN [k \in 1..s[i + 1][2] |->
          [agentID |-> s[i + 3 * k - 1][2], time |-> s[i + 3 * k][2],
           newState |-> s[i + 3 * k + 1][2]]]
       \o EntriesFrom(s, i + 2 + 3 * s[i + 1][2])
  ELSE <<[agentID |-> -1, time |-> -1, newState |-> -1]>>

\* C15: on an MVISP session where no socket write fails, every state change
\* accepted by uampChangeState is written exactly once, inside a 0x02 frame
\* whose count equals its number of entries, in the order of the calls (a
\* change not yet written is in the buffer), and all of them are written
\* before the termination frame of a successful uampTerminate.
C15_AcceptedChangesWritten ==
  /\ (pc = "idle" /\ client.numStates # 0 /\ ~poisoned
        /\ call.op \in {"changeState", "advanceOldest", "mvispConnect"}
        /\ (call.op = "mvispConnect" => ret = 0))
     => EntriesFrom(sent, 1) \o client.changes = changed
  /\ (TerminatedConnected /\ client.numStates # 0 /\ ~poisoned /\ ret = 0)
     => /\ EntriesFrom(sent, 1) = changed
        /\ Len(sent) >= 2
        /\ SubSeq(sent, Len(sent) - 1, Len(sent)) = <<W8(0), W32(0)>>
        /\ \A k \in 1..(Len(sent) - 2) : sent[k] # W8(0)

\* a successful uampTerminate has ended an MVISP session on which more
\* state changes were accepted than the buffer holds, so that they went out
\* in two frames
C15_Witness ==
  /\ TerminatedConnected
  /\ client.numStates # 0
  /\ ~poisoned
  /\ ret = 0
  /\ Len(changed) > UAMP_STATE_BUFFER_SIZE + 1
  /\ wire # sent

\* C16: on a UAMP session (numStates = 0) uampChangeState returns 0 for
\* every combination of arguments, out-of-range times, states and agent ids
\* included, buffers nothing, writes nothing and leaves the session as it
\* was.
C16_UampIgnoresChange ==
  [][(client.numStates = 0 /\ call'.op = "changeState")
     => /\ pc' = "idle"
        /\ ret' = 0
        /\ wire' = <<>>
        /\ sent' = sent
        /\ changed' = changed
        /\ client' = client
        /\ client.numChanges = 0 /\ client.changes = <<>>
        /\ socketOpen' = socketOpen
        /\ accepted' = accepted
        /\ lastCommand' = lastCommand
        /\ poisoned' = poisoned]_vars

\* uampChangeState has returned on a UAMP session that had advanced; it
\* was given an agent id that no agent has
C16_Witness ==
  /\ pc = "idle"
  /\ call.op = "changeState"
  /\ call.agentID = client.numAgents
  /\ client.numStates = 0
  /\ client.fd >= 0
  /\ client.smallestCurrentTime > 0
  /\ ret = 0

\* uampChangeState has returned on an MVISP session
ChangeReturned ==
  pc = "idle" /\ call.op = "changeState" /\ client.numStates # 0

\* the triple the returned uampChangeState was asked to enqueue
RequestedChange ==
  [agentID |-> call.agentID, time |-> llround1000(call.atTime),
   newState |-> call.newState]

\* the returned uampChangeState has put its triple behind the changes that
\* were buffered; if that filled the buffer, the triple ends the frame
\* written
ChangeEnqueued ==
  LET n == call.pre.numChanges + 1
  IN \/ /\ client.numChanges = n
        /\ client.changes[n] = RequestedChange
        /\ (wire = <<>>) <=> (n < UAMP_STATE_BUFFER_SIZE)
     \/ /\ n = UAMP_STATE_BUFFER_SIZE
        /\ client.numChanges = 0
        /\ Len(wire) = 2 + 3 * n
        /\ SubSeq(wire, 3 * n, 3 * n + 2)
             = <<W32(call.agentID), W32(llround1000(call.atTime)),
                 W32(call.newState)>>

\* the returned uampChangeState has refused its arguments with error err
ChangeRefused(err) ==
  /\ ret = err
  /\ client.numChanges = call.pre.numChanges
  /\ wire = <<>>

\* what C17 and its original statement say of a returned uampChangeState
\* whose time is, or is not, in range
ChangeChecked(timeInRange) ==
  LET stateInRange ==
        0 <= call.newState /\ call.newState < client.numStates
  IN /\ (timeInRange /\ stateInRange) <=> ChangeEnqueued
     /\ ~timeInRange => ChangeRefused(ERROR_INVALID_CHANGE_TIME)
     /\ (timeInRange /\ ~stateInRange)
          => ChangeRefused(ERROR_INVALID_CHANGE_STATE)

\* the time given is in the range of the times: 0 <= atTime <=
\* UAMP_MAX_TIME
TimeInRange(atTime) ==
  ~Earlier(atTime, NoTime) /\ ~Earlier(UAMP_MAX_TIME, atTime)

\* the time in milliseconds, llround(atTime * 1000.0) before its
\* conversion to uint32_t, lies in [0, timeLimit]
MsInRange(atTime, timeLimit) ==
  IF Earlier(atTime, NoTime)
  THEN atTime.seconds = 0 /\ llroundTenths(atTime.tenths) = 0
  ELSE LET ms == llroundBits(doubleTimes(doubleOf(Whole(atTime),
                                                  Frac(atTime), 10000),
                                         1000))
       IN Len(ms) <= 32 /\ ~Below32(timeLimit, uint32Of(ms))

\* the statement of C17 as given: the change is enqueued whenever the time
\* in milliseconds is in [0, timeLimit] and the state is one of the states
C17_EnqueuedIffMsInRange ==
  ChangeReturned
    => ChangeChecked(MsInRange(call.atTime, client.timeLimit))

\* C17 (amended): on an MVISP session uampChangeState enqueues the triple
\* (agent, time in ms, new state) if and only if the time given lies in
\* [0, UAMP_MAX_TIME], the time in ms it rounds to is at most the time
\* limit, and 0 <= new state < number of states; a time outside
\* [0, UAMP_MAX_TIME] or a time in ms above the time limit returns
\* InvalidChangeTime, an out-of-range state returns InvalidChangeState (the
\* time is checked before the state), and on either error the number of
\* buffered state changes is unchanged and nothing is written.
C17_EnqueuedIffValid ==
  ChangeReturned
    => ChangeChecked(/\ TimeInRange(call.atTime)
                     /\ MsInRange(call.atTime, client.timeLimit))

\* uampChangeState has enqueued, behind other changes, a change at
\* UAMP_MAX_TIME on a session whose time limit is UINT32_MAX; its time in
\* ms is UINT32_MAX
C17_Witness ==
  /\ ChangeReturned
  /\ ret = 0
  /\ client.timeLimit = UINT32_MAX
  /\ call.atTime = UAMP_MAX_TIME
  /\ RequestedChange.time = UINT32_MAX
  /\ call.pre.numChanges > 0
  /\ ChangeEnqueued

\* the running or returned connect call has called performHandshake
HandshakeMade == InConnect(Machine) /\ call.handshake # <<>>

\* the arguments of that handshake and what the server answered
ClientFeatures == call.handshake[1]

Server == call.handshake[2]

\* the socket calls of the handshake up to the read of the server's block
\* succeeded
BlockRead == Server.io.at \notin {1, 2}

\* the role tag of the other protocol
OtherTag == IF call.op = "connect" THEN "MVIS" ELSE "UAMP"

OwnTag == IF call.op = "connect" THEN "UAMP" ELSE "MVIS"

\* the first check that fails, in the order of C18, and its error; 0 when
\* every check passes
FirstFailingCheck ==
  CASE OtherFeatureBits(ClientFeatures) # {} -> ERROR_INVALID_FEATURES
    [] Server.id = OtherTag ->
         IF call.op = "connect" THEN ERROR_UAMP_CLIENT_MVISP_SERVER
         ELSE ERROR_MVISP_CLIENT_UAMP_SERVER
    [] Server.id # OwnTag -> ERROR_SERVER_UNKNOWN_HANDSHAKE
    [] (Server.ver \div 128) % 2 = 0 -> ERROR_NO_SHARED_VERSION
    [] /\ UAMP_SUPPORTS_3D \subseteq Server.features
       /\ ~(UAMP_SUPPORTS_3D \subseteq ClientFeatures) ->
         ERROR_2D_CLIENT_3D_SERVER
    [] /\ UAMP_SUPPORTS_ADD_REMOVE \subseteq Server.features
       /\ ~(UAMP_SUPPORTS_ADD_REMOVE \subseteq ClientFeatures) ->
         ERROR_ADD_REMOVE_UNSUPPORTED
    [] OTHER -> 0

\* the errors of the checks of the server's block
NegotiationErrors ==
  {ERROR_UAMP_CLIENT_MVISP_SERVER, ERROR_MVISP_CLIENT_UAMP_SERVER,
   ERROR_SERVER_UNKNOWN_HANDSHAKE, ERROR_NO_SHARED_VERSION,
   ERROR_2D_CLIENT_3D_SERVER, ERROR_ADD_REMOVE_UNSUPPORTED}

\* C18: the handshake returns the error of the first failing check in the
\* order: client feature bits other than 3D and add/remove (InvalidFeatures,
\* before anything is written); the other protocol's role tag
\* (UampClientMvispServer / MvispClientUampServer), any other wrong tag
\* (ServerUnknownHandshake); no bit 0x80 in the server's version mask
\* (NoSharedVersion); 3D advertised to a client without it
\* (2DClient3DServer); add/remove advertised to a client without it
\* (AddRemoveUnsupported).  Of several failing checks only the earliest is
\* reported, and none of these errors is returned when no check fails.
C18_FirstFailingCheck ==
  HandshakeMade =>
    /\ FirstFailingCheck = ERROR_INVALID_FEATURES
         => ret = ERROR_INVALID_FEATURES /\ wire = <<>> /\ pc = "idle"
    /\ (FirstFailingCheck # 0 /\ BlockRead)
         => ret = FirstFailingCheck /\ pc = "idle"
    /\ ret \in NegotiationErrors \cup {ERROR_INVALID_FEATURES}
         => ret = FirstFailingCheck

\* a connect call has returned the error of the role tag although the
\* server's version mask and its features fail their checks as well
C18_Witness ==
  /\ pc = "idle"
  /\ HandshakeMade
  /\ ret = ERROR_SERVER_UNKNOWN_HANDSHAKE
  /\ (Server.ver \div 128) % 2 = 0
  /\ UAMP_SUPPORTS_3D \subseteq Server.features
  /\ ClientFeatures = {}

\* the 9 bytes of the client's handshake: role tag, versions, features
ClientHello ==
  <<WRaw(OwnTag), W8(128), W32(ClientFeatures)>>

\* the writes of the connect call are its handshake bytes and then the one
\* byte b.  The handshake writes first, and writes its reject byte last: a
\* connect call has written no reject byte when its fourth write, if it
\* made one, is the version choice.
HelloThen(b) == wire = ClientHello \o <<W8(b)>>

\* C19: the reject byte 0x00 is written exactly when the handshake fails
\* on negotiation (role tag, NoSharedVersion, 2DClient3DServer,
\* AddRemoveUnsupported).  It is then written after the server's 9-byte
\* block was read, no version-choice byte is sent, and it is the last byte
\* the client writes before the socket is closed.  No other failure of a
\* connect call (InvalidFeatures, a socket error, a bad acknowledgement, a
\* denied simulation, a verification error) writes a reject byte.
C19_RejectByte ==
  /\ [](pc = "idle" /\ InConnect(Machine) /\ ret # 0
          => /\ ~HandshakeMade => wire = <<>>
             /\ (HandshakeMade /\ ret \in NegotiationErrors)
                  => HelloThen(0) /\ BlockRead /\ ~socketOpen
             /\ (HandshakeMade /\ ret \notin NegotiationErrors)
                  => /\ wire # <<>> => SubSeq(wire, 1, 3) = ClientHello
                     /\ Len(wire) >= 4 => wire[4] = W8(128)
                     /\ ret = ERROR_INVALID_FEATURES => wire = <<>>
                     /\ ret \in {ERROR_SERVER_REJECTED_HANDSHAKE,
                                 ERROR_SERVER_CLIENT_VERSION_DISAGREE}
                          => Len(wire) = 4)
  /\ [][(pc = "idle" /\ HandshakeMade /\ ret \in NegotiationErrors)
        => wire' = <<>> /\ sent' = sent /\ ~socketOpen']_vars

\* a connect call has failed on a server that advertises add/remove to a
\* client without it: the reject byte follows the client's handshake bytes
C19_Witness ==
  /\ pc = "idle"
  /\ HandshakeMade
  /\ ret = ERROR_ADD_REMOVE_UNSUPPORTED
  /\ HelloThen(0)
  /\ ~socketOpen

\* the errors of the handshake's acknowledgement
AckErrors ==
  {ERROR_SERVER_REJECTED_HANDSHAKE, ERROR_SERVER_CLIENT_VERSION_DISAGREE}

\* C20: when all handshake checks pass the client writes exactly one byte,
\* the chosen version mask 0x80, and reads one acknowledgement byte: 0x00
\* yields ServerRejectedHandshake, any other value but 0x80 yields
\* ServerClientVersionDisagree, and only 0x80 lets the connect call go on
\* to the specification (a call that does not read the acknowledgement
\* returns the error of the socket call that failed).
C20_VersionChoiceAndAck ==
  (HandshakeMade /\ BlockRead /\ FirstFailingCheck = 0) =>
    /\ Len(wire) >= 4
    /\ SubSeq(wire, 1, 4) = ClientHello \o <<W8(128)>>
    /\ Server.io.at = 0 =>
         /\ Server.ack = 0
              => ret = ERROR_SERVER_REJECTED_HANDSHAKE /\ pc = "idle"
         /\ Server.ack \notin {0, 128}
              => ret = ERROR_SERVER_CLIENT_VERSION_DISAGREE /\ pc = "idle"
         /\ Server.ack = 128 => ret \notin AckErrors
         /\ (Server.ack = 128 /\ call.op = "connect") => Len(wire) >= 7
    /\ Server.io.at # 0 => ret = Server.io.err /\ pc = "idle"
    /\ (pc = "fill" \/ ret = 0 \/ Len(wire) > 4)
         => Server.io.at = 0 /\ Server.ack = 128
    /\ ret \in AckErrors => Len(wire) = 4

\* a connect call has returned ServerClientVersionDisagree after writing
\* its version choice: the server acknowledged another version
C20_Witness ==
  /\ pc = "idle"
  /\ HandshakeMade
  /\ ret = ERROR_SERVER_CLIENT_VERSION_DISAGREE
  /\ Server.ack = 64
  /\ wire = ClientHello \o <<W8(128)>>

\* the running or returned uampConnect has read the server's response byte
ResponseRead == call.op = "connect" /\ call.response # <<>>

\* the writes of a uampConnect whose handshake succeeded, up to the seed
RequestWritten ==
  /\ Len(wire) >= 7
  /\ SubSeq(wire, 1, 6)
       = ClientHello
         \o <<W8(128), W32(client.numAgents), W32(client.timeLimit)>>
  /\ \E seed \in SeedInputs : wire[7] = W32(seed)

\* C21: in uampConnect, after a successful handshake the client writes the
\* three u32 values (num_agents, time_limit_ms, seed) and reads one response
\* byte; the first location request (opcode 0x01) is written only if that
\* byte is 0x00.  A response of 0x01 returns SimulationDenied and any other
\* non-zero value returns SimulationResponseBad, and in both cases nothing
\* further is written before the socket is closed.
C21_RequestOnlyAfterApproval ==
  /\ ResponseRead =>
       /\ RequestWritten
       /\ call.response[1] = 0
            => /\ Len(wire) > 7
               /\ wire[8] = W8(1)
               /\ ret \notin {ERROR_SIMULATION_DENIED,
                              ERROR_SIMULATION_RESPONSE_BAD}
       /\ call.response[1] = 1
            => /\ pc = "idle"
               /\ ret = ERROR_SIMULATION_DENIED
               /\ Len(wire) = 7
               /\ ~socketOpen
       /\ call.response[1] \notin {0, 1}
            => /\ pc = "idle"
               /\ ret = ERROR_SIMULATION_RESPONSE_BAD
               /\ Len(wire) = 7
               /\ ~socketOpen
  /\ (call.op = "connect" /\ Len(wire) > 7)
       => ResponseRead /\ call.response[1] = 0

\* a uampConnect has returned SimulationResponseBad: the server answered the
\* request with the byte 0x02, and the seed is the last write of the call
C21_Witness ==
  /\ pc = "idle"
  /\ ResponseRead
  /\ call.response[1] = 2
  /\ ret = ERROR_SIMULATION_RESPONSE_BAD
  /\ RequestWritten
  /\ Len(wire) = 7
  /\ ~socketOpen

\* the running or returned mvispConnect has read the specification
OfferRead == call.op = "mvispConnect" /\ call.offer # <<>>

\* the specification read, and the acceptFunc argument of the call
Offer == call.offer[1]

AcceptFunc == call.offer[2]

\* the number of agents read is 0; it exceeds INT_MAX
NoAgentsOffered == Offer.high = 0 /\ Offer.numAgents = 0

AboveIntMax == Offer.high = 1

\* the handshake writes of a connect call that reached the specification
HandshakeDone == ClientHello \o <<W8(128)>>

\* the state-name block of the call's stateNames argument
StateBlock == writeStates(call.states[1], call.states[2])

\* a socketWrite of the message of total bytes that answers the
\* specification fails
AnswerFails(total) ==
  Offer.io.at >= 2 /\ Offer.io.at - 1 <= writeCalls(total)

\* acceptFunc has returned: mvispConnect is past its call of the predicate
\* or did not call it
PredicateReturned == pc # "accept"

\* C22: in mvispConnect, after the handshake the client reads (num_agents,
\* time_limit_ms): if num_agents == 0 it returns MvispNoAgents without
\* writing anything; if the acceptance predicate returns non-zero or
\* num_agents exceeds INT_MAX it writes exactly one u32 0 and returns
\* SimulationDenied without sending state names or any location request;
\* otherwise it writes the state-name block and only after that the first
\* location request (the socket calls succeeding).  Nothing is written
\* between the read of the specification and the return of the predicate
\* but what the predicate itself makes the client write; a predicate that
\* terminated or initialized the client makes the next write fail.
C22_SpecificationAnswer ==
  OfferRead =>
    /\ Len(wire) >= 4
    /\ SubSeq(wire, 1, 4) = HandshakeDone
    /\ NoAgentsOffered
         => /\ pc = "idle"
            /\ ret = ERROR_MVISP_NO_AGENTS
            /\ Len(wire) = 4
            /\ ~socketOpen
    /\ ~PredicateReturned
         => /\ ~NoAgentsOffered /\ ~AboveIntMax /\ AcceptFunc # "none"
            /\ IF CallbackTerminated
               THEN wire = HandshakeDone \o terminationFrame
               ELSE wire = HandshakeDone
    /\ (PredicateReturned /\ CallbackTerminated)
         => /\ pc = "idle"
            /\ ret = ERROR_SOCKET_WRITE
            /\ ~socketOpen
    /\ (PredicateReturned /\ CallbackInitialized)
         => /\ pc = "idle"
            /\ ret = ERROR_SOCKET_WRITE
            /\ ~NoAgentsOffered /\ ~AboveIntMax /\ AcceptFunc # "none"
    /\ (PredicateReturned /\ ~CallbackTerminated /\ ~CallbackInitialized
          /\ ~NoAgentsOffered /\ (AboveIntMax \/ AcceptFunc = "denies"))
         => /\ pc = "idle"
            /\ Len(wire) = 5
            /\ wire[5] = W32(0)
            /\ IF AnswerFails(4) THEN ret = ERROR_SOCKET_WRITE
               ELSE ret = ERROR_SIMULATION_DENIED
            /\ ~socketOpen
    /\ (PredicateReturned /\ ~CallbackTerminated /\ ~CallbackInitialized
          /\ ~NoAgentsOffered /\ ~AboveIntMax /\ AcceptFunc # "denies")
         => /\ wire[5] = W32(call.states[2])
            /\ ret \notin {ERROR_MVISP_NO_AGENTS, ERROR_SIMULATION_DENIED}
            /\ IF AnswerFails(statesTotal(call.states[1], call.states[2]))
               THEN /\ pc = "idle"
                    /\ ret = ERROR_SOCKET_WRITE
                    /\ Len(wire) <= 4 + Len(StateBlock)
                    /\ \A k \in 5..(Len(wire) - 1) :
                         wire[k] = StateBlock[k - 4]
               ELSE /\ Len(wire) > 4 + Len(StateBlock)
                    /\ SubSeq(wire, 5, 4 + Len(StateBlock)) = StateBlock
                    /\ wire[5 + Len(StateBlock)] = W8(1)

\* an mvispConnect without acceptance function has returned
\* SimulationDenied: the server offered more than INT_MAX agents, and the
\* u32 0 is the only write after the handshake
C22_Witness ==
  /\ pc = "idle"
  /\ OfferRead
  /\ AboveIntMax
  /\ AcceptFunc = "none"
  /\ ret = ERROR_SIMULATION_DENIED
  /\ wire = HandshakeDone \o <<W32(0)>>
  /\ ~socketOpen

\* a session is open (its connect call is in its initial fill or has
\* returned 0)
InSession == client.fd >= 0

\* the ring slots of an agent that hold an update stored by receiveReply
StoredSlots(a) ==
  {k \in 0..(UAMP_UPDATE_QUEUE_SIZE - 1) : k < Len(accepted[a])}

\* every stored update and every command of the session has z = 0
FlatSession ==
  \A a \in Agents(client) :
    /\ \A k \in StoredSlots(a) : client.agents[a].updates[k].z = 0
    /\ \A k \in 1..Len(accepted[a]) : accepted[a][k].z = 0
    /\ pc = "idle"
         => /\ uampCurrentCommand(client, a).fromZ = Div1000(0)
            /\ uampCurrentCommand(client, a).toZ = Div1000(0)

\* every stored update of the session has present = 1
AllPresent ==
  \A a \in Agents(client) :
    /\ \A k \in StoredSlots(a) : client.agents[a].updates[k].present = 1
    /\ \A k \in 1..Len(accepted[a]) : accepted[a][k].present = 1

\* C23: in any session that connected successfully with a client feature
\* mask lacking SUPPORTS_3D, every update stored in every agent queue has
\* z == 0 (so fromZ and toZ of every command are 0); with a client mask
\* lacking SUPPORTS_ADD_REMOVE, every stored update has present == 1.  This
\* holds for every server feature mask, because a server advertising a
\* feature the client lacks makes the handshake fail.  In three parts: the
\* connect call that opens a session leaves in client->serverFeatures a
\* mask with no feature its supportedFeatures argument lacks; the mask
\* stays as it is for as long as the session is open; and in every state of
\* a session whose mask lacks a feature the field is fixed.
C23_UnsupportedFieldsFixed ==
  /\ []((InSession /\ HandshakeMade)
          => /\ Has3D(client.serverFeatures) => Has3D(ClientFeatures)
             /\ HasAddRemove(client.serverFeatures)
                  => HasAddRemove(ClientFeatures)
             /\ client.serverFeatures = Server.features)
  /\ [][(InSession /\ client'.fd >= 0)
          => client'.serverFeatures = client.serverFeatures]_vars
  /\ [](InSession
          => /\ ~Has3D(client.serverFeatures) => FlatSession
             /\ ~HasAddRemove(client.serverFeatures) => AllPresent)

\* a connect call of a client without 3D and add/remove has returned 0: the
\* server's trajectory leaves the plane, and every slot of agent 0 holds
\* z = 0 and present = 1
C23_Witness ==
  /\ Usable
  /\ HandshakeMade
  /\ ClientFeatures = UAMP_NO_EXTRAS
  /\ Len(accepted[0]) = UAMP_UPDATE_QUEUE_SIZE
  /\ \A k \in StoredSlots(0) :
       /\ OnTrajectory(client.agents[0].updates[k].time).z # 0
       /\ client.agents[0].updates[k].z = 0
       /\ client.agents[0].updates[k].present = 1

\* the stateNames and numStates arguments of the mvispConnect call
StateNames == call.states[1]

NumStates == call.states[2]

\* name k of the array offends: its length is not between 1 and
\* MAX_NAME_LEN, or it is byte-equal to a name before it
Offends(k) ==
  \/ Len(StateNames[k]) < 1
  \/ Len(StateNames[k]) > MAX_NAME_LEN
  \/ \E j \in 1..(k - 1) : StateNames[j] = StateNames[k]

\* what C24 says verifyStates returns for the arguments of the call
StatesVerdict ==
  IF NumStates <= 0 THEN ERROR_INVALID_NUMBER_STATES
  ELSE IF \A k \in 1..NumStates : ~Offends(k) THEN 0
  ELSE LET first == CHOOSE k \in 1..NumStates :
                      Offends(k) /\ \A j \in 1..(k - 1) : ~Offends(j)
       IN IF Len(StateNames[first]) = 0 THEN ERROR_ZERO_STATE_LENGTH
          ELSE IF Len(StateNames[first]) > MAX_NAME_LEN
          THEN ERROR_STATE_LENGTH_LONG
          ELSE ERROR_DUPLICATE_STATE

StateErrors ==
  {ERROR_INVALID_NUMBER_STATES, ERROR_ZERO_STATE_LENGTH,
   ERROR_STATE_LENGTH_LONG, ERROR_DUPLICATE_STATE}

\* C24: verifyStates accepts a state-name array iff num_states > 0, every
\* name has length between 1 and 1024 bytes, and no two names are
\* byte-equal; otherwise it returns InvalidNumberStates, ZeroStateLength,
\* StateLengthLong or DuplicateState for the first offending name in array
\* order (length checked before duplication for each name; a name offends
\* by duplication when it equals a name before it), and mvispConnect then
\* fails before any connection is opened or any byte is written.
C24_StateNamesVerified ==
  call.op = "mvispConnect" =>
    /\ verifyStates(StateNames, NumStates) = StatesVerdict
    /\ StatesVerdict # 0
         => /\ pc = "idle"
            /\ ret = StatesVerdict
            /\ wire = <<>>
            /\ call.handshake = <<>>
            /\ ~socketOpen
            /\ client.fd = -1
    /\ StatesVerdict = 0 => ret \notin StateErrors

\* an mvispConnect has returned DuplicateState for an array whose second
\* name repeats the first and whose third name is empty; no socket was
\* opened and nothing was written
C24_Witness ==
  /\ pc = "idle"
  /\ call.op = "mvispConnect"
  /\ NumStates = 3
  /\ StateNames[2] = StateNames[1]
  /\ StateNames[3] = <<>>
  /\ ret = ERROR_DUPLICATE_STATE
  /\ wire = <<>>
  /\ ~socketOpen

\* a reply whose time equals the time limit has been accepted for agent a
LimitAccepted(a) ==
  \E k \in 1..Len(accepted[a]) : accepted[a][k].time = client.timeLimit

\* C25: for every time limit accepted by connect (0 included) and every
\* agent, once a reply whose time equals time_limit has been accepted for
\* that agent, the agent's received_final flag is true (consequently a
\* server that sends an update with time == time_limit followed by
\* identical copies of it is accepted).  receiveReply sets the flag only
\* for a reply that is not the agent's first: with a time limit of 0 the
\* first reply, of time 0, is accepted and leaves the flag clear, and the
\* copy that follows it is refused with TimestampNotIncremented.
C25_FinalFlagOnceLimitAccepted ==
  InSession =>
    \A a \in Agents(client) :
      LimitAccepted(a) => client.agents[a].receivedFinal # 0

\* the replies accepted for agent a, and the advanceAgent calls made on it
Received(a) == Len(accepted[a])

\* the position, among the replies of agent a, of its current update and
\* of its previous update (the current one before the first advance)
CurrentPos(a) == advances[a] + 1

PreviousPos(a) == IF advances[a] = 0 THEN 1 ELSE advances[a]

\* advanceAgent has moved the cursor of agent a, has seen aliveInQueue = 1
\* and is in fillUpdateQueues, which has not yet read a reply for a
RefillBegun(a) ==
  /\ pc = "fill"
  /\ call.op \in {"advance", "advanceOldest"}
  /\ call.agentID = a
  /\ client.agents[a].aliveInQueue = 1

\* the ring slot before the cursor of agent a
SlotBehind(a) ==
  client.agents[a].updates[(client.agents[a].currentIndex
                              + UAMP_UPDATE_QUEUE_SIZE - 1)
                             % UAMP_UPDATE_QUEUE_SIZE]

\* C26, as stated: for every agent, alive_in_queue counts exactly the
\* current update plus the received updates still ahead of it; in
\* particular, at the moment advance_agent observes alive_in_queue == 1
\* after moving the cursor, the one alive update is the new current update,
\* i.e. the slot at current_index already holds an update received from the
\* server for that position.
C26_AliveIsCurrentAndAhead ==
  InSession =>
    \A a \in Agents(client) :
      /\ client.agents[a].aliveInQueue = Received(a) - (CurrentPos(a) - 1)
      /\ RefillBegun(a) => Received(a) >= CurrentPos(a)

\* C26, amended: alive_in_queue counts the received updates from the
\* previous update on: the previous update, the current update and the
\* received updates ahead of it (before the agent's first advance there is
\* no previous update).  At the moment advance_agent observes
\* alive_in_queue == 1 after moving the cursor, the one alive update is the
\* new previous update, the one the cursor has just left; the update for
\* the slot at current_index has not been received, and that slot is where
\* the refill stores the next reply of the agent.
C26_AliveIsPreviousCurrentAndAhead ==
  InSession =>
    \A a \in Agents(client) :
      /\ client.agents[a].aliveInQueue = Received(a) - (PreviousPos(a) - 1)
      /\ Usable
           => /\ Received(a) >= CurrentPos(a)
              /\ getCurrentUpdate(client, a) = accepted[a][CurrentPos(a)]
              /\ getPreviousUpdate(client, a) = accepted[a][PreviousPos(a)]
      /\ RefillBegun(a)
           => /\ Received(a) = PreviousPos(a)
              /\ Received(a) < CurrentPos(a)
              /\ client.agents[a].recvIndex = client.agents[a].currentIndex
              /\ SlotBehind(a) = accepted[a][PreviousPos(a)]

\* a uampAdvance of agent 0 has moved the cursor, has seen one alive update
\* and waits for the first reply of its refill: the six replies accepted
\* for the agent end with its previous update
C26_Witness ==
  /\ InSession
  /\ RefillBegun(0)
  /\ call.replies = 0
  /\ advances[0] = UAMP_UPDATE_QUEUE_SIZE
  /\ Received(0) = UAMP_UPDATE_QUEUE_SIZE
  /\ SlotBehind(0) = accepted[0][UAMP_UPDATE_QUEUE_SIZE]

\* the updates that n calls of advanceAgent on an agent have retired, one
\* for each call but the first; those retired of agent a
RetiredBy(n) == IF n = 0 THEN 0 ELSE n - 1

Retired(a) == RetiredBy(advances[a])

\* C27: in every reachable state (including states in the middle of a
\* refill) each agent satisfies 0 <= current_index < 6, 0 <= recv_index < 6
\* and 0 <= alive_in_queue <= 6, and alive_in_queue equals the number of
\* replies accepted for the agent minus the number of updates retired by
\* advance_agent (one per advance of that agent except its first).
C27_QueueCounters ==
  \A a \in DOMAIN client.agents :
    LET agent == client.agents[a]
    IN /\ agent.currentIndex \in 0..(UAMP_UPDATE_QUEUE_SIZE - 1)
       /\ agent.recvIndex \in 0..(UAMP_UPDATE_QUEUE_SIZE - 1)
       /\ agent.aliveInQueue \in 0..UAMP_UPDATE_QUEUE_SIZE
       /\ a \in DOMAIN accepted /\ a \in DOMAIN advances
       /\ agent.aliveInQueue = Len(accepted[a]) - Retired(a)
       /\ agent.recvIndex = Len(accepted[a]) % UAMP_UPDATE_QUEUE_SIZE
       /\ agent.currentIndex = advances[a] % UAMP_UPDATE_QUEUE_SIZE

\* in the middle of a refill made by an advance, a reply of that refill has
\* been accepted for agent 0 after the cursor wrapped around the ring: the
\* agent has more replies than slots and has retired five updates
C27_Witness ==
  /\ pc = "fill"
  /\ call.op \in {"advance", "advanceOldest"}
  /\ 0 \in DOMAIN client.agents
  /\ Len(accepted[0]) > UAMP_UPDATE_QUEUE_SIZE
  /\ Retired(0) = UAMP_UPDATE_QUEUE_SIZE - 1
  /\ client.agents[0].currentIndex = 0
  /\ client.agents[0].aliveInQueue \in 2..(UAMP_UPDATE_QUEUE_SIZE - 1)

\* what C28 says agent a is requested: 6 - alive_in_queue when its
\* received_final flag is clear, nothing when it is set
Need(a) ==
  IF client.agents[a].receivedFinal # 0 THEN 0
  ELSE UAMP_UPDATE_QUEUE_SIZE - client.agents[a].aliveInQueue

\* the requests of the agents below a
RECURSIVE NeedBefore(_)
NeedBefore(a) == IF a = 0 THEN 0 ELSE NeedBefore(a - 1) + Need(a - 1)

TotalNeed == NeedBefore(client.numAgents)

\* the agent whose id stands at position k among the ids, in ascending
\* agent order
AgentAt(k) ==
  CHOOSE a \in Agents(client) :
    NeedBefore(a) < k /\ k <= NeedBefore(a) + Need(a)

\* requestUpdates has written a frame and has read no reply for it
FrameStart == pc = "fill" /\ fill.onRequest = 0 /\ fill.i = 0

\* the last writes of the running call: the frame requestUpdates wrote
Frame ==
  SubSeq(wire, Len(wire) - fill.totalRequests - 1, Len(wire))

\* the replies that requestUpdates has read for the frame
RepliesRead == fill.onRequest + fill.i

\* the writes of a call that precede its location requests
BeforeRequests ==
  CASE call.op = "connect" -> 7
    [] call.op = "mvispConnect" -> 4 + Len(StateBlock)
    [] OTHER -> 0

\* the sum of the counts of the location requests w consists of
RECURSIVE Requested(_)
Requested(w) ==
  IF Len(w) < 2 THEN 0
  ELSE w[2][2] + Requested(SubSeq(w, w[2][2] + 3, Len(w)))

\* C28: every location request frame is: opcode 0x01, a u32 count, then
\* exactly count agent ids in ascending agent order, where agent i appears
\* exactly (6 - alive_in_queue[i]) times if its received_final flag is
\* clear and 0 times if it is set; hence once an agent has received its
\* final update no later request ever contains its id, and exactly count
\* replies are read for the frame, attributed to agents in the same order.
C28_RequestFrame ==
  /\ FrameStart
       => /\ fill.totalRequests = TotalNeed
          /\ Len(wire) >= TotalNeed + 2
          /\ Frame[1] = W8(1)
          /\ Frame[2] = W32(TotalNeed)
          /\ \A k \in 1..TotalNeed : Frame[k + 2] = W32(AgentAt(k))
          /\ \A a \in Agents(client) :
               client.agents[a].receivedFinal # 0
                 => \A k \in 1..TotalNeed : Frame[k + 2] # W32(a)
  /\ pc = "fill"
       => /\ RepliesRead < fill.totalRequests
          /\ Frame[RepliesRead + 3] = W32(fill.onAgent)
  /\ (pc = "idle" /\ InSession /\ ret = 0
        /\ call.op \in {"connect", "mvispConnect", "advance",
                        "advanceOldest"})
       => call.replies
            = Requested(SubSeq(wire, BeforeRequests + 1, Len(wire)))

\* a refill has written a frame and has read no reply for it: agent 0 has
\* its final update and is not requested, agent 1 is requested five times
C28_Witness ==
  /\ FrameStart
  /\ call.op \in {"advance", "advanceOldest"}
  /\ client.numAgents = 2
  /\ client.agents[0].receivedFinal # 0
  /\ client.agents[0].aliveInQueue < UAMP_UPDATE_QUEUE_SIZE
  /\ client.agents[1].aliveInQueue = 1
  /\ wire = <<W8(1), W32(5), W32(1), W32(1), W32(1), W32(1), W32(1)>>

\* the update an agent received before the one it receives next
PreviouslyReceived(agent) ==
  agent.updates[(agent.recvIndex + UAMP_UPDATE_QUEUE_SIZE - 1)
                  % UAMP_UPDATE_QUEUE_SIZE]

\* what C29 says the verification of reply r gives for the agent: 0 or the
\* error of the first failing check
Verdict(agent, r) ==
  LET flag == IF r.present \notin {0, 1} THEN ERROR_INVALID_PRESENT_FLAG
              ELSE 0
  IN IF agent.aliveInQueue = 0
     THEN IF r.time # 0 THEN ERROR_FIRST_UPDATE_TIME ELSE flag
     ELSE IF agent.receivedFinal # 0
     THEN IF r # PreviouslyReceived(agent)
          THEN ERROR_NON_EQUAL_FINAL_UPDATES ELSE flag
     ELSE IF r.time <= PreviouslyReceived(agent).time
          THEN ERROR_TIMESTAMP_NOT_INCREMENTED
     ELSE IF r.time > client.timeLimit THEN ERROR_TIMESTAMP_TOO_LARGE
     ELSE flag

\* the step reads a location reply
ReplyRead == pc = "fill" /\ call'.replies = call.replies + 1

\* C29: for each server reply the verification result is the first failing
\* check in this order: if the agent has no alive update, time != 0 ->
\* FirstUpdateTime; otherwise, if received_final is set, any field differing
\* from the previously received update -> NonEqualFinalUpdates; otherwise
\* time <= previous time -> TimestampNotIncremented, else time > time_limit
\* -> TimestampTooLarge; finally present not in {0,1} -> InvalidPresentFlag.
\* A reply that fails any check does not increment alive_in_queue and does
\* not advance recv_index (and the call returns that error); a reply that
\* passes increments alive_in_queue by one and advances recv_index by one
\* slot modulo 6.
C29_ReplyVerification ==
  [][ReplyRead =>
       LET a == fill.onAgent
           agent == client.agents[a]
           r == call'.reply[1]
           after == client'.agents[a]
       IN IF Verdict(agent, r) # 0
          THEN /\ pc' = "idle"
               /\ ret' = Verdict(agent, r)
               /\ IF InConnect(Machine) THEN client'.agents = <<>>
                  ELSE /\ after.aliveInQueue = agent.aliveInQueue
                       /\ after.recvIndex = agent.recvIndex
                       /\ accepted' = accepted
                       /\ after.updates[agent.recvIndex] = r
          ELSE /\ ret' = 0
               /\ accepted' = [accepted EXCEPT ![a] = Append(@, r)]
               /\ after.updates[agent.recvIndex] = r
               /\ after.recvIndex
                    = (agent.recvIndex + 1) % UAMP_UPDATE_QUEUE_SIZE
               /\ after.aliveInQueue
                    = agent.aliveInQueue + 1
                      - (RetiredBy(advances'[a]) - RetiredBy(advances[a]))
     ]_vars

\* a refill has failed with TimestampNotIncremented on a reply that repeats
\* the time of the previous one and whose present byte is not a flag: the
\* reply is in the slot at recv_index, which did not move
C29_Witness ==
  /\ pc = "idle"
  /\ poisoned
  /\ call.op = "advanceOldest"
  /\ ret = ERROR_TIMESTAMP_NOT_INCREMENTED
  /\ call.reply # <<>>
  /\ call.reply[1].present = 2
  /\ \E a \in Agents(client) :
       /\ client.agents[a].updates[client.agents[a].recvIndex]
            = call.reply[1]
       /\ PreviouslyReceived(client.agents[a]).time = call.reply[1].time
       /\ client.agents[a].aliveInQueue = 1
       /\ client.agents[a].receivedFinal = 0

\* the running or last call is uampAdvance or uampAdvanceOldest
Advancing == call.op \in {"advance", "advanceOldest"}

\* the agents whose cursor the call has moved
Advanced == {a \in DOMAIN call.advanced : call.advanced[a] > 0}

\* alive_in_queue of agent a once the call has moved its cursor, as long as
\* the call has not refilled the queues: what it was on entry, less the
\* update retired
LeftAlive(a) ==
  call.pre.aliveInQueue[a] - (IF call.pre.time[a] # 0 THEN 1 ELSE 0)

\* C30: location requests are written only during the initial fill of a
\* connect and inside an advance in which the advancing agent's
\* alive_in_queue becomes exactly 1 after its cursor moved; an advance that
\* leaves the agent's alive_in_queue at 2 or more performs no socket read or
\* write, and there is no other point at which the client fetches updates.
C30_RefillOnlyOnLastAlive ==
  /\ pc = "fill" => InConnect(Machine) \/ Advancing
  /\ (pc = "fill" /\ InConnect(Machine))
       => Len(wire) = BeforeRequests + 2 + fill.totalRequests
  /\ (FrameStart /\ Advancing)
       => /\ call.agentID \in Advanced
          /\ client.agents[call.agentID].aliveInQueue = 1
          /\ client.agents[call.agentID].currentIndex
               = (call.pre.currentIndex[call.agentID] + 1)
                 % UAMP_UPDATE_QUEUE_SIZE
          /\ call.replies = 0 => LeftAlive(call.agentID) = 1
  /\ Advancing
       => /\ (\A a \in Advanced : LeftAlive(a) >= 2)
               => pc = "idle" /\ wire = <<>> /\ call.replies = 0
          /\ wire # <<>>
               => /\ wire[1] = W8(1)
                  /\ \E a \in Advanced : LeftAlive(a) = 1
  /\ (~InConnect(Machine) /\ ~Advancing)
       => /\ pc = "idle"
          /\ call.replies = 0
          /\ wire # <<>> => wire[1] # W8(1)

\* a uampAdvanceOldest has returned 0 after moving the cursors of both
\* agents: it left each agent two or more alive updates, one of them one
\* fewer than on entry, and made no socket read or write
C30_Witness ==
  /\ Usable
  /\ call.op = "advanceOldest"
  /\ ret = 0
  /\ Advanced = {0, 1}
  /\ \A a \in Advanced : LeftAlive(a) >= 2
  /\ \E a \in Advanced :
       /\ LeftAlive(a) = 2
       /\ client.agents[a].aliveInQueue = 2
  /\ wire = <<>>
  /\ call.replies = 0

\* the ring slot in which the p-th reply of an agent is stored
SlotOf(p) == (p - 1) % UAMP_UPDATE_QUEUE_SIZE

\* the positions, among the replies of agent a, of the updates its ring
\* still holds for use: from its previous update to the last one received
Window(a) == PreviousPos(a)..Received(a)

\* C31: each agent's queue is a faithful FIFO of the server's stream for
\* that agent: after a successful connect and k successful advances of
\* agent i (k >= 0, while data remains), the agent's current update equals
\* the (k+1)-th reply the server sent for agent i, and for k >= 1 its
\* previous update equals the k-th reply; no reply is skipped, duplicated
\* or read from a slot that has not been refilled, however the advances of
\* different agents interleave and whichever agent's advance triggered
\* each refill.  The replies are compared as receiveReply decodes them.
C31_QueueIsFifo ==
  InSession =>
    \A a \in Agents(client) :
      /\ \A p \in Window(a) :
           client.agents[a].updates[SlotOf(p)] = accepted[a][p]
      /\ Usable
           => /\ advances[a] + 1 \in Window(a)
              /\ client.agents[a].currentIndex = SlotOf(advances[a] + 1)
              /\ getCurrentUpdate(client, a) = accepted[a][advances[a] + 1]
              /\ advances[a] >= 1
                   => getPreviousUpdate(client, a) = accepted[a][advances[a]]
              /\ \A p, q \in Window(a) :
                   (p < q /\ accepted[a][p].time < client.timeLimit)
                     => accepted[a][p].time < accepted[a][q].time

\* agent 0 has advanced six times and agent 1 fewer: the cursor of agent 0
\* is back at slot 0, which holds the seventh reply of the agent, and the
\* previous update is its sixth, in slot 5
C31_Witness ==
  /\ Usable
  /\ client.numAgents = 2
  /\ advances[0] = UAMP_UPDATE_QUEUE_SIZE
  /\ advances[1] \in 1..(UAMP_UPDATE_QUEUE_SIZE - 1)
  /\ client.agents[0].currentIndex = 0
  /\ getCurrentUpdate(client, 0) = accepted[0][UAMP_UPDATE_QUEUE_SIZE + 1]
  /\ getPreviousUpdate(client, 0) = accepted[0][UAMP_UPDATE_QUEUE_SIZE]
  /\ getCurrentUpdate(client, 0) # getPreviousUpdate(client, 0)

\* agent a has advanced at least once
HasAdvanced(a) == advances[a] >= 1

\* the index of the slot d slots after the cursor of an agent (d >= -1)
SlotAfter(agent, d) ==
  (agent.currentIndex + UAMP_UPDATE_QUEUE_SIZE + d) % UAMP_UPDATE_QUEUE_SIZE

\* the ring indices of agent a that hold its previous update (once it has
\* advanced) or an update received and not yet consumed
HeldSlots(a) ==
  LET agent == client.agents[a]
  IN IF HasAdvanced(a)
     THEN {SlotAfter(agent, d) : d \in (-1)..(agent.aliveInQueue - 2)}
     ELSE {SlotAfter(agent, d) : d \in 0..(agent.aliveInQueue - 1)}

\* C32: a refill never stores a reply into a ring slot that holds the
\* agent's previous update or an update that was received and not yet
\* consumed: at every reply store, recv_index differs from the index of the
\* previous update and from the index of every unconsumed update;
\* equivalently, whenever no refill is in progress, recv_index ==
\* (current_index + alive_in_queue - 1) mod 6 for an agent that has advanced
\* at least once and recv_index == (current_index + alive_in_queue) mod 6
\* for an agent that has not, and between successful public calls every
\* agent has alive_in_queue >= 2.  A reply store changes no other slot.
C32_RefillSparesHeldSlots ==
  /\ [](pc = "idle"
          => \A a \in DOMAIN client.agents :
               client.agents[a].recvIndex
                 = SlotAfter(client.agents[a],
                             client.agents[a].aliveInQueue
                               - (IF HasAdvanced(a) THEN 1 ELSE 0)))
  /\ [](Usable => \A a \in Agents(client) :
                    client.agents[a].aliveInQueue >= 2)
  /\ [][ReplyRead =>
         LET a == fill.onAgent
             agent == client.agents[a]
         IN /\ agent.recvIndex \notin HeldSlots(a)
            /\ client'.agents # <<>>
                 => /\ \A k \in 0..(UAMP_UPDATE_QUEUE_SIZE - 1) :
                         k # agent.recvIndex
                           => client'.agents[a].updates[k]
                                = agent.updates[k]
                    /\ \A b \in Agents(client) \ {a} :
                         client'.agents[b].updates
                           = client.agents[b].updates
       ]_vars

\* a refill made by an advance has filled the ring of agent 0, which has
\* advanced and has received more replies than the ring has slots:
\* recv_index is the index of the agent's previous update, and the refill
\* has stored nothing there
C32_Witness ==
  /\ Usable
  /\ Advancing
  /\ call.replies > 0
  /\ HasAdvanced(0)
  /\ Received(0) > UAMP_UPDATE_QUEUE_SIZE
  /\ client.agents[0].aliveInQueue = UAMP_UPDATE_QUEUE_SIZE
  /\ client.agents[0].recvIndex = prevIndexOf(client.agents[0])
  /\ client.agents[0].recvIndex \in HeldSlots(0)
  /\ getPreviousUpdate(client, 0) = accepted[0][advances[0]]

\* the return values of a failed socket call
SocketErrors ==
  {ERROR_INVALID_PORT, ERROR_HOSTNAME_INFORMATION, ERROR_CREATE_SOCKET,
   ERROR_CONNECT_SOCKET, ERROR_SOCKET_DRY, ERROR_SOCKET_READ,
   ERROR_SOCKET_WRITE}

\* the return values of a failed verification of a location reply
ReplyErrors ==
  {ERROR_FIRST_UPDATE_TIME, ERROR_NON_EQUAL_FINAL_UPDATES,
   ERROR_TIMESTAMP_TOO_LARGE, ERROR_TIMESTAMP_NOT_INCREMENTED,
   ERROR_INVALID_PRESENT_FLAG}

\* the running or last call has met no socket error and no verification
\* error
LegalTranscript == ret \notin (SocketErrors \cup ReplyErrors)

\* frame k of the call was begun with the given total and has been passed
\* exactly that many bytes
Exact(k, op, total) == io[k] = IoFrame(op, total, total)

\* the bytes of one location reply under the features negotiated
ReplySize ==
  12 + (IF Has3D(client.serverFeatures) THEN 4 ELSE 0)
     + (IF HasAddRemove(client.serverFeatures) THEN 1 ELSE 0)

\* the frames of location requests and replies begin after frame k of the
\* call: write frames of 5 + 4n bytes, each followed by a read frame of n
\* replies
RequestsAfter(k) ==
  \A j \in (k + 1)..Len(io) :
    IF (j - k) % 2 = 1
    THEN /\ io[j].op = "write"
         /\ io[j].total >= 9
         /\ (io[j].total - 5) % 4 = 0
    ELSE /\ io[j].op = "read"
         /\ io[j].total = ReplySize * ((io[j - 1].total - 5) \div 4)
         /\ io[j].passed % ReplySize = 0

\* C33: for any legal session transcript (no socket error and no
\* verification error), every beginRead(n) issued by the library is
\* followed, before the next beginRead/beginWrite, by typed reads whose
\* widths sum to exactly n, and every beginWrite(n) by typed writes whose
\* widths sum to exactly n; at no point does the running sum exceed n, so
\* the over-consumption assertions in socketReadRaw and socketWriteRaw
\* never fire.  This covers the handshake (9/9), the simulation request
\* (12), the MVISP specification (8) and denial (4), the state-name block,
\* location requests and replies for every negotiated feature combination,
\* state-change frames and the termination frame (5).
C33_FramesExact ==
  LegalTranscript =>
    /\ \A k \in 1..Len(io) : io[k].passed <= io[k].total
    /\ \A k \in 1..(Len(io) - 1) : io[k].passed = io[k].total
    /\ pc \in {"idle", "accept"}
         => \A k \in 1..Len(io) : io[k].passed = io[k].total
    /\ pc = "fill"
         => /\ io[Len(io)].op = "read"
            /\ io[Len(io)].passed < io[Len(io)].total
    /\ InConnect(Machine)
         => /\ Len(io) >= 1 => Exact(1, "write", 9)
            /\ Len(io) >= 2 => Exact(2, "read", 9)
    /\ call.op = "connect"
         => /\ Len(io) >= 3 => Exact(3, "write", 12)
            /\ RequestsAfter(3)
    /\ call.op = "mvispConnect"
         => /\ Len(io) >= 3 => Exact(3, "read", 8)
            /\ pc = "accept" => Len(io) = IF CallbackTerminated THEN 4 ELSE 3
            /\ (Len(io) >= 4 /\ CallbackTerminated)
                 => Exact(4, "write", 5) /\ Len(io) = 4
            /\ (Len(io) >= 4 /\ ~CallbackTerminated
                  /\ ret = ERROR_SIMULATION_DENIED)
                 => Exact(4, "write", 4) /\ Len(io) = 4
            /\ (Len(io) >= 4 /\ ~CallbackTerminated
                  /\ ret # ERROR_SIMULATION_DENIED)
                 => Exact(4, "write",
                          4 + 4 * NumStates + nameBytes(StateNames, NumStates))
            /\ RequestsAfter(4)
    /\ Advancing => RequestsAfter(0)
    /\ call.op = "changeState"
         => \/ io = <<>>
            \/ /\ io = <<IoFrame("write", 5 + 12 * UAMP_STATE_BUFFER_SIZE,
                                  5 + 12 * UAMP_STATE_BUFFER_SIZE)>>
               /\ call.pre.numChanges = UAMP_STATE_BUFFER_SIZE - 1
    /\ call.op = "terminate"
         => \/ io = <<>> /\ call.pre.fd < 0
            \/ io = <<IoFrame("write", 5, 5)>> /\ call.pre.numChanges = 0
            \/ /\ io = <<IoFrame("write", 5 + 12 * call.pre.numChanges,
                                  5 + 12 * call.pre.numChanges),
                          IoFrame("write", 5, 5)>>
               /\ call.pre.numChanges > 0

\* an mvispConnect with a server that sends z and the present flag has
\* returned 0: after the handshake it read the specification, wrote a block
\* of two state names and one location request, and read six replies of 17
\* bytes for each agent
C33_Witness ==
  /\ pc = "idle"
  /\ ret = 0
  /\ call.op = "mvispConnect"
  /\ Has3D(client.serverFeatures)
  /\ HasAddRemove(client.serverFeatures)
  /\ NumStates = 2
  /\ Len(io) = 6
  /\ Exact(4, "write", 15)
  /\ Exact(5, "write", 5 + 4 * UAMP_UPDATE_QUEUE_SIZE * client.numAgents)
  /\ Exact(6, "read", 17 * UAMP_UPDATE_QUEUE_SIZE * client.numAgents)

\* the bytes the last typed read gave its caller are the bytes of the
\* frame, in order, up to the last byte passed
HandedInOrder ==
  \A k \in 1..Len(traffic.data) :
    traffic.data[k] = commBuf.passed - Len(traffic.data) + (k - 1)

\* C34: during a framed read begun with beginRead(total), each refill asks
\* the socket for exactly min(2048, total - passed) bytes and happens only
\* when the buffer is empty; therefore passed + inBuffer <= total always
\* holds, the client never reads from the socket a byte belonging to a
\* later message, and the bytes handed to the caller are the socket's bytes
\* in stream order.
C34_ReadRefills ==
  traffic.op = "read" =>
    /\ \A n \in 1..Len(traffic.calls) :
         /\ traffic.calls[n].inBuffer = 0
         /\ traffic.calls[n].size
              = Min(UAMP_IO_BUFFER_SIZE,
                    commBuf.total - traffic.calls[n].passed)
    /\ commBuf.passed + commBuf.inBuffer <= commBuf.total
    /\ traffic.moved <= commBuf.total
    /\ traffic.ret = 0
         => traffic.moved = commBuf.passed + commBuf.inBuffer
    /\ traffic.ret # 0
         => /\ commBuf.inBuffer = 0
            /\ traffic.moved >= commBuf.passed
            /\ traffic.moved
                 < commBuf.passed + traffic.calls[Len(traffic.calls)].size
    /\ HandedInOrder
    /\ traffic.ret = 0
         => Len(traffic.calls)
              = (traffic.moved + UAMP_IO_BUFFER_SIZE - 1)
                \div UAMP_IO_BUFFER_SIZE

\* a read of the largest total has refilled the buffer twice, with 2048
\* bytes and with the bytes that were left, and a typed read has handed
\* over bytes of both refills, the last of the first before the first of
\* the second
C34_Witness ==
  /\ traffic.op = "read"
  /\ traffic.ret = 0
  /\ commBuf.total = MaxTotal
  /\ Len(traffic.calls) = 2
  /\ traffic.calls[1].size = UAMP_IO_BUFFER_SIZE
  /\ traffic.calls[2].size = MaxTotal - UAMP_IO_BUFFER_SIZE
  /\ traffic.calls[2].passed = UAMP_IO_BUFFER_SIZE
  /\ \E k \in 1..(Len(traffic.data) - 1) :
       /\ traffic.data[k] = UAMP_IO_BUFFER_SIZE - 1
       /\ traffic.data[k + 1] = UAMP_IO_BUFFER_SIZE

\* C35: during a framed write begun with beginWrite(total), the buffer is
\* flushed to the socket exactly when it holds 2048 bytes or when passed ==
\* total; when the last typed write of the frame returns successfully, all
\* total bytes have been written to the socket in the order they were
\* supplied and the buffer is empty (inBuffer == 0), so no byte of a frame
\* is left unsent or sent after a byte of the next frame.
C35_WriteFlushes ==
  traffic.op = "write" =>
    /\ \A n \in 1..Len(traffic.calls) :
         /\ \/ traffic.calls[n].inBuffer = UAMP_IO_BUFFER_SIZE
            \/ traffic.calls[n].passed = commBuf.total
         /\ traffic.calls[n].size = traffic.calls[n].inBuffer
         /\ traffic.calls[n].ordered
    /\ traffic.ret = 0
         => /\ commBuf.inBuffer < UAMP_IO_BUFFER_SIZE
            /\ traffic.moved + commBuf.inBuffer = commBuf.passed
            /\ commBuf.passed = commBuf.total
                 => /\ commBuf.inBuffer = 0
                    /\ traffic.moved = commBuf.total
            /\ commBuf.passed < commBuf.total
                 => /\ commBuf.inBuffer
                         = commBuf.passed % UAMP_IO_BUFFER_SIZE
                    /\ Len(traffic.calls)
                         = commBuf.passed \div UAMP_IO_BUFFER_SIZE
    /\ traffic.ret # 0
         => /\ commBuf.inBuffer > 0
            /\ traffic.moved + commBuf.inBuffer >= commBuf.passed
            /\ traffic.moved < commBuf.passed

\* the last typed write of a frame of the largest total has returned 0: the
\* socket was written 2048 bytes when the buffer was full and the bytes
\* left when the total was reached, in the order supplied, and the buffer
\* is empty
C35_Witness ==
  /\ traffic.op = "write"
  /\ traffic.ret = 0
  /\ commBuf.total = MaxTotal
  /\ commBuf.passed = MaxTotal
  /\ commBuf.inBuffer = 0
  /\ Len(traffic.calls) = 2
  /\ traffic.calls[1].size = UAMP_IO_BUFFER_SIZE
  /\ traffic.calls[1].passed = UAMP_IO_BUFFER_SIZE
  /\ traffic.calls[2].size = MaxTotal - UAMP_IO_BUFFER_SIZE
  /\ traffic.calls[2].ordered
  /\ traffic.moved = MaxTotal

\* no socket write of the session has failed: a call that fails on a
\* connected session is followed by uampTerminate only
NoWriteFailed == ret # ERROR_SOCKET_WRITE

\* C36: on an MVISP session where no socket write fails, the number of
\* buffered state changes is between 0 and 127 after every uampChangeState
\* call; a call that brings the count to 128 writes one 0x02 frame with
\* count 128 during that call and resets the count to 0, and no
\* uampChangeState call writes a frame otherwise.
C36_BufferedChangesBelowFull ==
  /\ (client.fd >= 0 /\ client.numStates # 0 /\ NoWriteFailed)
       => /\ client.numChanges >= 0
          /\ client.numChanges < UAMP_STATE_BUFFER_SIZE
          /\ Len(client.changes) = client.numChanges
  /\ (ChangeReturned /\ NoWriteFailed)
       => IF ret = 0 /\ call.pre.numChanges + 1 = UAMP_STATE_BUFFER_SIZE
          THEN /\ client.numChanges = 0
               /\ Len(wire) = 2 + 3 * UAMP_STATE_BUFFER_SIZE
               /\ wire[1] = W8(2)
               /\ wire[2] = W32(UAMP_STATE_BUFFER_SIZE)
               /\ \A k \in 2..Len(wire) : wire[k][1] = 32
               /\ Len(EntriesFrom(wire, 1)) = UAMP_STATE_BUFFER_SIZE
          ELSE /\ wire = <<>>
               /\ client.numChanges
                    = call.pre.numChanges + (IF ret = 0 THEN 1 ELSE 0)

\* the 128th state change accepted on an MVISP session has filled the
\* buffer: the call has written its frame of 128
\* changes and the buffer is empty
C36_Witness ==
  /\ ChangeReturned
  /\ ret = 0
  /\ call.pre.numChanges = UAMP_STATE_BUFFER_SIZE - 1
  /\ client.numChanges = 0
  /\ Len(changed) = UAMP_STATE_BUFFER_SIZE
  /\ Len(wire) = 2 + 3 * UAMP_STATE_BUFFER_SIZE
  /\ wire[2] = W32(UAMP_STATE_BUFFER_SIZE)

\* the returned uampChangeState has called addStateChange
ChangeStored ==
  /\ ChangeReturned
  /\ ret \notin {ERROR_INVALID_CHANGE_TIME, ERROR_INVALID_CHANGE_STATE}

FlushFailed ==
  /\ ChangeReturned
  /\ ret = ERROR_SOCKET_WRITE
  /\ call.pre.numChanges = UAMP_STATE_BUFFER_SIZE - 1

\* this step is a call of uampChangeState that passes the argument checks
ChangeCalled ==
  /\ pc = "idle"
  /\ call'.op = "changeState"
  /\ client.numStates # 0
  /\ checkChange(client, call'.atTime, call'.newState) = 0

RoundBegun == pc = "fill" /\ fill.onRequest = 0 /\ fill.i = 0

\* the agent behind the last one of the range requested: the agent whose
\* need made the sum wrap, or the number of agents
RangeEnd == IF fill.more THEN fill.nextStart ELSE client.numAgents

\* the exact sum of the needs of the agents from..(to - 1)
RECURSIVE SumNeeds(_, _)
SumNeeds(from, to) ==
  IF from >= to THEN 0
  ELSE numToRequest(client, from) + SumNeeds(from + 1, to)

\* the id of each agent from..(to - 1), as often as the agent needs
RECURSIVE RangeIds(_, _)
RangeIds(from, to) ==
  IF from >= to THEN <<>>
  ELSE [k \in 1..numToRequest(client, from) |-> W32(from)]
       \o RangeIds(from + 1, to)

\* the reply read in this step is the last one of its round trip
RoundDone ==
  /\ ReplyRead
  /\ ret' = 0
  /\ fill.i + 1 = fill.requestsForAgent
  /\ fill.onRequest + fill.requestsForAgent >= fill.totalRequests

\* what holds of a request that has just been written
RequestIsRange ==
  RoundBegun =>
    /\ fill.startAgent < RangeEnd
    /\ RangeEnd <= client.numAgents
    /\ fill.totalRequests > 0
    /\ fill.totalRequests = SumNeeds(fill.startAgent, RangeEnd)
    /\ Len(wire) >= 2 + fill.totalRequests
    /\ SubSeq(wire, Len(wire) - fill.totalRequests - 1, Len(wire))
         = <<W8(1), W32(fill.totalRequests)>>
           \o RangeIds(fill.startAgent, RangeEnd)
    /\ \A a \in 0..(fill.startAgent - 1) : numToRequest(client, a) = 0
    /\ fill.more
         => /\ fill.nextTotal = numToRequest(client, fill.nextStart)
            /\ fill.nextTotal > 0
            /\ uint32Mod # 0
            /\ fill.totalRequests + fill.nextTotal >= uint32Mod

\* C38: when the running unsigned 32-bit sum of per-agent needs would wrap,
\* fillUpdateQueues splits the work into several request/reply round-trips
\* such that: each round-trip's count equals the exact (non-wrapped) sum of
\* the needs of a contiguous ascending range of agents, the ranges
\* partition all agents with non-zero need, every agent's need is requested
\* exactly once, and no request is sent with a count that differs from the
\* number of ids that follow it (checked with the sum reduced to words of
\* WordBits - 1 and WordBits bits, overflow as mod 2^w).
C38_WrappedSumSplitsRequests ==
  /\ []RequestIsRange
  /\ [][/\ (pc = "idle" /\ pc' = "fill") => fill'.startAgent = 0
        /\ (pc = "fill" /\ pc' = "fill" /\ RoundBegun')
             => /\ RoundDone
                /\ fill'.startAgent = IF fill.more THEN fill.nextStart ELSE 0
        /\ RoundDone
             => /\ \A a \in fill.startAgent..(RangeEnd - 1) :
                     client'.agents[a].receivedFinal = 0
                       => client'.agents[a].aliveInQueue
                            = UAMP_UPDATE_QUEUE_SIZE
                /\ fill.more
                     => /\ pc' = "fill"
                        /\ RoundBegun'
                        /\ call'.op = call.op]_vars

\* uampConnect for three agents, on a word of four bits: the sum of the
\* needs wrapped at the third agent, the twelve replies to the request for
\* the first two agents have been read, and the request for the third
\* agent has been written
C38_Witness ==
  /\ RoundBegun
  /\ InConnect(Machine)
  /\ uint32Mod = 16
  /\ client.numAgents = 3
  /\ fill.startAgent = 2
  /\ ~fill.more
  /\ fill.totalRequests = UAMP_UPDATE_QUEUE_SIZE
  /\ call.replies = 2 * UAMP_UPDATE_QUEUE_SIZE
  /\ numToRequest(client, 0) = 0
  /\ numToRequest(client, 1) = 0

\* the larger of two numbers
Max(a, b) == IF a > b THEN a ELSE b

\* the rational q = <<numerator, denominator>>, a position in metres, lies
\* between the positions p0 and p1, which are in millimetres
OnSegment(q, p0, p1) ==
  /\ q[2] > 0
  /\ Min(p0, p1) * q[2] <= q[1] * 1000
  /\ q[1] * 1000 <= Max(p0, p1) * q[2]

\* what C39 says of agent a
IntersectionInside(a) ==
  LET last == getPreviousUpdate(client, a)
      current == getCurrentUpdate(client, a)
      deltaT == current.time - last.time
      fromPart == client.largestLastTime - last.time
      toPart == client.smallestCurrentTime - last.time
      r == uampIntersectCommand(client, a)
  IN /\ last.time <= client.largestLastTime
     /\ client.smallestCurrentTime <= current.time
     /\ last.time < current.time
     /\ deltaT # 0
     /\ 0 <= fromPart /\ fromPart <= deltaT
     /\ 0 <= toPart /\ toPart <= deltaT
     /\ r.ret = 0
     /\ OnSegment(r.command.fromX, last.x, current.x)
     /\ OnSegment(r.command.fromY, last.y, current.y)
     /\ OnSegment(r.command.fromZ, last.z, current.z)
     /\ OnSegment(r.command.toX, last.x, current.x)
     /\ OnSegment(r.command.toY, last.y, current.y)
     /\ OnSegment(r.command.toZ, last.z, current.z)

\* the agents of which C39 speaks, in a state in which it speaks of them
Intersecting(a) ==
  /\ pc = "idle"
  /\ client.fd >= 0
  /\ client.largestLastTime <= client.smallestCurrentTime
  /\ a \in Agents(client)
  /\ getCurrentUpdate(client, a).time # 0

AtTimeLimit ==
  /\ pc \in {"idle", "left"}
  /\ client.fd >= 0
  /\ client.smallestCurrentTime = client.timeLimit

\* uampIsAnyMore returns 0 and uampIsMore returns 0 for every agent
NoMoreData ==
  /\ uampIsAnyMore(client) = 0
  /\ \A a \in Agents(client) : uampIsMore(client, a) = 0

\* the statement of C40 as given, for the loop of runClient: the loop
\* comes to its end with smallestCurrentTime == time_limit, uampIsAnyMore
\* returning 0 and uampIsMore returning 0 for every agent.  (Nothing
\* advances the session once the loop is left, so a loop that is left
\* earlier never gets there.)
C40_LoopEndsAtTimeLimit ==
  pc = "left" => (AtTimeLimit /\ NoMoreData)

\* C40 (amended): against a server that obeys the ordering rules (each
\* agent's times strictly increase and reach time_limit, with time_limit >
\* 0) and with no socket failure, the synchronized loop of runClient
\* terminates: every call in it succeeds, every uampAdvanceOldest strictly
\* increases smallestCurrentTime, which never exceeds time_limit, and the
\* loop is left either by its test, every agent being infected, possibly
\* with smallestCurrentTime < time_limit and uampIsAnyMore still returning
\* 1, or with smallestCurrentTime == time_limit; whenever
\* smallestCurrentTime == time_limit, uampIsAnyMore returns 0 and
\* uampIsMore returns 0 for every agent.
C40_SynchronizedLoopTerminates ==
  /\ [](call.op # "none" => ret = 0 /\ ~poisoned /\ client.fd >= 0)
  /\ []((pc = "idle" /\ call.op = "advanceOldest")
          => /\ client.smallestCurrentTime > call.oldest
             /\ client.smallestCurrentTime <= client.timeLimit)
  /\ [](AtTimeLimit => NoMoreData)
  /\ (call.op # "none") ~> (pc = "left")
  /\ [](pc = "left" => (~LoopTest \/ AtTimeLimit))
  /\ [][pc = "left" => UNCHANGED vars]_vars

\* the loop has been left at the time limit, not everyone being infected,
\* on a session of two agents whose queues were refilled on the way
C40_Witness ==
  /\ pc = "left"
  /\ LoopTest
  /\ AtTimeLimit
  /\ call.op = "advanceOldest"
  /\ client.numAgents = 2
  /\ client.timeLimit = MaxTimeLimit
  /\ call.oldest < client.timeLimit
  /\ \E a \in Agents(client) : advances[a] >= UAMP_UPDATE_QUEUE_SIZE
  /\ \E a \in Agents(client) : Len(accepted[a]) > UAMP_UPDATE_QUEUE_SIZE

====
